---- MODULE Spec2Model ----
(***************************************************************************)
(* StratCap calculation engines.                                           *)
(*                                                                         *)
(*   WaterfallCalculationEngine  services/waterfall_engine.py              *)
(*   AllocationEngine            models/allocation_engine.py               *)
(*   EventCalculationEngine      models/fund_events.py                     *)
(*                                                                         *)
(* Money is decimal.Decimal in the waterfall engine.  A Decimal is         *)
(* modelled as an integer count of 1/Scale units; a quotient or a product  *)
(* that does not fit is rounded half-even, as the decimal context does at  *)
(* its 28th digit.  Sums, differences and min are exact: the inputs are    *)
(* whole or short decimals, for which the program's are exact too.         *)
(***************************************************************************)
EXTENDS Integers, Sequences, FiniteSets, TLC

VARIABLES
    wf_pc,              \* position inside calculate_waterfall
    wf_runs,            \* calculations started so far
    wf_input,           \* the WaterfallCalculationInput of the current call
    caller_positions,   \* the InvestorPosition objects the caller handed in
    remaining_amount,   \* calculate_waterfall: remaining_amount
    tier_index,         \* calculate_waterfall: position of the for loop
    tier_distributions, \* calculate_waterfall: tier_distributions
    updated_positions,  \* calculate_waterfall: updated_positions
    wf_result,          \* the WaterfallCalculationResult returned
    calculation_history,\* number of results stored in calculation_history
    gp_received,        \* what the GP has been paid for the fund, up to now
    funds,              \* AllocationEngine.funds: fund_id -> FundStructure
    investors,          \* AllocationEngine.investors: the registered investor ids
    allocations,        \* AllocationEngine.allocations
    alloc_calls,        \* allocate_investor calls made so far
    alloc_request,      \* the AllocationRequest of the last call
    fund_scores,        \* allocate_investor: fund_scores of the last call
    alloc_outcome,      \* what the last call returned or raised
    committed_before,   \* each fund's committed_capital before the first call
    accepted,           \* the results returned so far, in call order
    calculations,       \* EventCalculationEngine.calculations, in insertion order
    ev_calls,           \* calculate_event calls made so far
    ev_event,           \* the FundEvent of the last call
    ev_commitments,     \* the investor_commitments of the last call
    ev_outcome,         \* what the last call returned or raised
    ev_returned,        \* every call so far: what was passed, what came back
    event_status,       \* FundEvent.status of the event handed to process_event
    approved_by,        \* FundEvent.approved_by of that event
    event_history,      \* EventProcessingService.event_history
    pe_pc,              \* process_event: where the call is
    pe_event,           \* process_event: event
    pe_flags,           \* process_event: auto_approve, send_notifications
    pe_calls,           \* process_event calls made so far
    pe_result,          \* process_event: processing_result
    pe_outcome,         \* what the last process_event call returned or raised
    threads,            \* concurrent allocate_investor calls: each call's locals
    commit_log,         \* per fund, the amounts added to committed_capital, in order
    raced               \* the funds two calls were allocating from at the same time

wf_vars == <<wf_pc, wf_runs, wf_input, caller_positions, remaining_amount,
             tier_index, tier_distributions, updated_positions, wf_result,
             calculation_history, gp_received>>

alloc_vars == <<funds, investors, allocations, alloc_calls, alloc_request, fund_scores,
                alloc_outcome, committed_before, accepted>>

ev_vars == <<calculations, ev_calls, ev_event, ev_commitments, ev_outcome,
             ev_returned>>

pe_vars == <<event_status, approved_by, event_history, pe_pc, pe_event, pe_flags, pe_calls,
             pe_result, pe_outcome>>

th_vars == <<threads, commit_log, raced>>

vars == <<wf_vars, alloc_vars, ev_vars, pe_vars, th_vars>>

----------------------------------------------------------------------------
(* Decimal arithmetic *)

Scale == 1000

\* Bounds of the model
MaxTiers == 2
MaxRuns == 2
MaxCalls == 2
MantissaBits == 3
MaxEvents == 2
MaxProcessCalls == 2

Abs(x) == IF x < 0 THEN -x ELSE x
Min(a, b) == IF a <= b THEN a ELSE b
Max(a, b) == IF a >= b THEN a ELSE b

\* n / d rounded to an integer, ties to even (d > 0)
RoundHalfEven(n, d) ==
    LET q == n \div d
        r == n % d
    IN  IF 2 * r < d THEN q
        ELSE IF 2 * r > d THEN q + 1
        ELSE IF q % 2 = 0 THEN q ELSE q + 1

DecMul(a, b) == RoundHalfEven(a * b, Scale)
DecDiv(a, b) == RoundHalfEven(a * Scale, b)

\* A whole or short decimal literal: Units(5) is Decimal('5')
Units(n) == n * Scale

\* A stored position field is a Decimal when the caller supplied it and a str
\* once a tier wrote it: pos['x'] = str(...).
AsDecimal(v) == [t |-> "Decimal", v |-> v]
Str(v) == [t |-> "str", v |-> v]
\* Decimal(str(x)): str of a Decimal, or of a str, is its literal, and the
\* literal parses back to the same value.
DecimalOfStr(x) == x.v

None == << >>
Some(x) == <<x>>
\* `not rate`: None and Decimal zero are both falsy
Falsy(r) == r = None \/ r[1] = 0

RECURSIVE SumSeq(_)
SumSeq(s) == IF s = << >> THEN 0 ELSE Head(s) + SumSeq(Tail(s))

\* dict[k] = v
DictSet(d, k, v) == [x \in DOMAIN d \cup {k} |-> IF x = k THEN v ELSE d[x]]
\* dict.get(k, default)
DictGet(d, k, default) == IF k \in DOMAIN d THEN d[k] ELSE default
EmptyDict == << >>

RECURSIVE SumDict(_)
SumDict(d) ==
    IF DOMAIN d = {} THEN 0
    ELSE LET k == CHOOSE x \in DOMAIN d : TRUE
         IN  d[k] + SumDict([x \in DOMAIN d \ {k} |-> d[x]])

----------------------------------------------------------------------------
(* Waterfall engine: data *)

WaterfallTier == {"return_of_capital", "preferred_return", "catch_up",
                  "promoted_carry", "remaining_proceeds"}

WaterfallTierDefinition(id, type, hurdle, catch_up, carry, lp, gp) ==
    [tier_id |-> id, tier_type |-> type, hurdle_rate |-> hurdle, catch_up_rate |-> catch_up,
     carry_rate |-> carry, lp_percentage |-> lp, gp_percentage |-> gp]

InvestorPosition(id, total, unreturned, cumulative, prior, carry, ownership) ==
    [investor_id |-> id,
     total_contributions |-> AsDecimal(total),
     unreturned_contributions |-> AsDecimal(unreturned),
     preferred_return_shortfall |-> AsDecimal(0),
     cumulative_preferred_return |-> AsDecimal(cumulative),
     prior_distributions |-> AsDecimal(prior),
     prior_carry_distributions |-> AsDecimal(carry),
     ownership_percentage |-> AsDecimal(ownership)]

TierDistribution(id, type, available) ==
    [tier_id |-> id,
     tier_type |-> type,
     available_amount |-> available,
     distributed_amount |-> 0,
     remaining_amount |-> available,
     lp_amount |-> 0,
     gp_amount |-> 0,
     investor_distributions |-> EmptyDict]

----------------------------------------------------------------------------
(* Waterfall engine: tier calculations.  Each takes the fresh tier record and *)
(* the working positions and yields both as the code leaves them.            *)

TierOutcome(tier_result, positions) == [tier |-> tier_result, positions |-> positions]

\* Variant: the cap by the available amount is missing
Uncapped(available_amount, owed) == owed

\* distribution_amount = min(tier_result.available_amount, <what the tier owes>)
CappedByAvailable(available_amount, owed) == Min(available_amount, owed)

\* tier_result.investor_distributions[pos['investor_id']] = investor_share, for
\* the positions the loop pays, in list order
RECURSIVE AssignShares(_, _, _, _)
AssignShares(positions, pays, shares, dist) ==
    IF positions = << >> THEN dist
    ELSE AssignShares(Tail(positions), Tail(pays), Tail(shares),
                      IF Head(pays)
                      THEN DictSet(dist, Head(positions).investor_id, Head(shares))
                      ELSE dist)

Field(positions, name) ==
    [i \in 1..Len(positions) |-> DecimalOfStr(positions[i][name])]

_calculate_return_of_capital(tier_result, positions) ==
    LET unreturned == Field(positions, "unreturned_contributions")
        total_unreturned == SumSeq(unreturned)
        distribution_amount == CappedByAvailable(tier_result.available_amount, total_unreturned)
        pays == [i \in 1..Len(positions) |-> unreturned[i] > 0 /\ total_unreturned > 0]
        investor_share ==
            [i \in 1..Len(positions) |->
                IF pays[i]
                THEN DecMul(DecDiv(unreturned[i], total_unreturned), distribution_amount)
                ELSE 0]
    IN  IF total_unreturned <= 0
        THEN TierOutcome(tier_result, positions)
        ELSE TierOutcome(
            [tier_result EXCEPT
                !.investor_distributions = AssignShares(positions, pays, investor_share, @),
                !.distributed_amount = distribution_amount,
                !.lp_amount = distribution_amount,
                !.remaining_amount = tier_result.available_amount - distribution_amount],
            [i \in 1..Len(positions) |->
                IF pays[i]
                THEN [positions[i] EXCEPT
                        !.unreturned_contributions = Str(unreturned[i] - investor_share[i]),
                        !.prior_distributions =
                            Str(DecimalOfStr(positions[i].prior_distributions) + investor_share[i])]
                ELSE positions[i]])

\* (calculation_date - fund_inception_date).days / 365.25, read back as a Decimal
YearsSinceInception(calculation_input) ==
    RoundHalfEven(
        (calculation_input.calculation_date - calculation_input.fund_inception_date)
            * 100 * Scale, 36525)

_calculate_preferred_return(tier_result, tier_def, calculation_input, positions) ==
    LET hurdle_rate == tier_def.hurdle_rate[1]
        years_since_inception == YearsSinceInception(calculation_input)
        shortfall ==
            [i \in 1..Len(positions) |->
                LET capital_base == DecimalOfStr(positions[i].total_contributions)
                    annual_preferred == DecMul(capital_base, hurdle_rate)
                    cumulative_preferred == DecMul(annual_preferred, years_since_inception)
                    prior_preferred_paid ==
                        DecimalOfStr(positions[i].cumulative_preferred_return)
                IN  Max(0, cumulative_preferred - prior_preferred_paid)]
        with_shortfall ==
            [i \in 1..Len(positions) |->
                [positions[i] EXCEPT !.preferred_return_shortfall = Str(shortfall[i])]]
        total_shortfall == SumSeq(shortfall)
        distribution_amount == CappedByAvailable(tier_result.available_amount, total_shortfall)
        pays == [i \in 1..Len(positions) |-> shortfall[i] > 0 /\ total_shortfall > 0]
        investor_share ==
            [i \in 1..Len(positions) |->
                IF pays[i]
                THEN DecMul(DecDiv(shortfall[i], total_shortfall), distribution_amount)
                ELSE 0]
    IN  IF Falsy(tier_def.hurdle_rate)
        THEN TierOutcome(tier_result, positions)
        ELSE IF total_shortfall <= 0
        THEN TierOutcome(tier_result, with_shortfall)
        ELSE TierOutcome(
            [tier_result EXCEPT
                !.investor_distributions = AssignShares(positions, pays, investor_share, @),
                !.distributed_amount = distribution_amount,
                !.lp_amount = distribution_amount,
                !.remaining_amount = tier_result.available_amount - distribution_amount],
            [i \in 1..Len(positions) |->
                IF pays[i]
                THEN [with_shortfall[i] EXCEPT
                        !.cumulative_preferred_return =
                            Str(DecimalOfStr(positions[i].cumulative_preferred_return)
                                + investor_share[i]),
                        !.prior_distributions =
                            Str(DecimalOfStr(positions[i].prior_distributions) + investor_share[i])]
                ELSE with_shortfall[i]])

_calculate_catch_up(tier_result, tier_def, positions) ==
    LET catch_up_rate == tier_def.catch_up_rate[1]
        total_lp_distributions == SumSeq(Field(positions, "prior_distributions"))
        target_gp_carry ==
            DecMul(total_lp_distributions, DecDiv(catch_up_rate, Units(1) - catch_up_rate))
        total_gp_received == SumSeq(Field(positions, "prior_carry_distributions"))
        catch_up_needed == Max(0, target_gp_carry - total_gp_received)
        distribution_amount == CappedByAvailable(tier_result.available_amount, catch_up_needed)
    IN  IF Falsy(tier_def.catch_up_rate)
        THEN TierOutcome(tier_result, positions)
        ELSE IF catch_up_needed <= 0
        THEN TierOutcome(tier_result, positions)
        ELSE TierOutcome(
            [tier_result EXCEPT
                !.distributed_amount = distribution_amount,
                !.gp_amount = distribution_amount,
                !.remaining_amount = tier_result.available_amount - distribution_amount],
            positions)

\* The split of the whole available amount that promoted carry and remaining
\* proceeds share: lp_percentage and gp_percentage are fractions of one.
SplitByOwnership(tier_result, lp_percentage, gp_percentage, positions) ==
    LET distribution_amount == tier_result.available_amount
        lp_amount == DecMul(distribution_amount, lp_percentage)
        gp_amount == DecMul(distribution_amount, gp_percentage)
        ownership == Field(positions, "ownership_percentage")
        total_ownership == SumSeq(ownership)
        pays == [i \in 1..Len(positions) |-> total_ownership > 0]
        investor_share ==
            [i \in 1..Len(positions) |->
                IF pays[i]
                THEN LET ownership_pct == DecDiv(ownership[i], Units(100))
                     IN  DecMul(lp_amount,
                                DecDiv(ownership_pct, DecDiv(total_ownership, Units(100))))
                ELSE 0]
    IN  TierOutcome(
            [tier_result EXCEPT
                !.investor_distributions = AssignShares(positions, pays, investor_share, @),
                !.distributed_amount = distribution_amount,
                !.lp_amount = lp_amount,
                !.gp_amount = gp_amount,
                !.remaining_amount = 0],
            [i \in 1..Len(positions) |->
                IF pays[i]
                THEN [positions[i] EXCEPT
                        !.prior_distributions =
                            Str(DecimalOfStr(positions[i].prior_distributions) + investor_share[i])]
                ELSE positions[i]])

_calculate_promoted_carry(tier_result, tier_def, positions) ==
    IF Falsy(tier_def.carry_rate)
    THEN TierOutcome(tier_result, positions)
    ELSE SplitByOwnership(tier_result, Units(1) - tier_def.carry_rate[1],
                          tier_def.carry_rate[1], positions)

_calculate_remaining_proceeds(tier_result, tier_def, positions) ==
    SplitByOwnership(tier_result,
                     DecDiv(tier_def.lp_percentage, Units(100)),
                     DecDiv(tier_def.gp_percentage, Units(100)),
                     positions)

_calculate_tier_distribution(tier_def, available_amount, calculation_input, positions) ==
    LET tier_result == TierDistribution(tier_def.tier_id, tier_def.tier_type, available_amount)
    IN  CASE tier_def.tier_type = "return_of_capital" ->
                _calculate_return_of_capital(tier_result, positions)
          [] tier_def.tier_type = "preferred_return" ->
                _calculate_preferred_return(tier_result, tier_def, calculation_input, positions)
          [] tier_def.tier_type = "catch_up" ->
                _calculate_catch_up(tier_result, tier_def, positions)
          [] tier_def.tier_type = "promoted_carry" ->
                _calculate_promoted_carry(tier_result, tier_def, positions)
          [] tier_def.tier_type = "remaining_proceeds" ->
                _calculate_remaining_proceeds(tier_result, tier_def, positions)
          [] OTHER -> TierOutcome(tier_result, positions)

\* next(p for p in updated_positions if p['investor_id'] == investor_id)
FirstWithId(positions, id) ==
    LET hits == {i \in 1..Len(positions) : positions[i].investor_id = id}
    IN  IF hits = {} THEN 0 ELSE CHOOSE i \in hits : \A j \in hits : i <= j

_update_positions_for_tier(positions, tier_result, tier_def) ==
    [i \in 1..Len(positions) |->
        IF /\ tier_def.tier_type \in {"catch_up", "promoted_carry"}
           /\ positions[i].investor_id \in DOMAIN tier_result.investor_distributions
           /\ FirstWithId(positions, positions[i].investor_id) = i
        THEN [positions[i] EXCEPT
                !.prior_carry_distributions =
                    Str(DecimalOfStr(positions[i].prior_carry_distributions)
                        + tier_result.investor_distributions[positions[i].investor_id])]
        ELSE positions[i]]

_create_investor_summaries(tiers, original_positions) ==
    LET Amounts(id, types) ==
            SumSeq([k \in 1..Len(tiers) |->
                IF tiers[k].tier_type \in types
                THEN DictGet(tiers[k].investor_distributions, id, 0) ELSE 0])
        ids == {original_positions[i].investor_id : i \in 1..Len(original_positions)}
    IN  [id \in ids |->
            [total_distribution |-> Amounts(id, WaterfallTier),
             return_of_capital |-> Amounts(id, {"return_of_capital"}),
             preferred_return |-> Amounts(id, {"preferred_return"}),
             carry_distributions |-> Amounts(id, {"catch_up", "promoted_carry"}),
             other_distributions |-> Amounts(id, {"remaining_proceeds"})]]

\* Variant: an ownership total off 100 is treated as an error
ValidationErrorsStrict(calculation_input) ==
    (IF calculation_input.total_distribution_amount <= 0
     THEN {"Distribution amount must be positive"} ELSE {})
    \cup (IF calculation_input.waterfall_tiers = << >>
          THEN {"No waterfall tiers defined"} ELSE {})
    \cup (IF calculation_input.investor_positions = << >>
          THEN {"No investor positions provided"} ELSE {})
    \cup (IF Abs(SumSeq(Field(calculation_input.investor_positions, "ownership_percentage"))
                 - Units(100)) > Scale \div 100
          THEN {"Total ownership is not 100%"} ELSE {})

\* _validate_input: what it appends to errors
ValidationErrors(calculation_input) ==
    (IF calculation_input.total_distribution_amount <= 0
     THEN {"Distribution amount must be positive"} ELSE {})
    \cup (IF calculation_input.waterfall_tiers = << >>
          THEN {"No waterfall tiers defined"} ELSE {})
    \cup (IF calculation_input.investor_positions = << >>
          THEN {"No investor positions provided"} ELSE {})

\* abs(total_ownership - 100) > Decimal('0.01')
OwnershipDeviates(calculation_input) ==
    Abs(SumSeq(Field(calculation_input.investor_positions, "ownership_percentage"))
        - Units(100)) > Scale \div 100

NoReturnOfCapitalTier(calculation_input) ==
    \A k \in 1..Len(calculation_input.waterfall_tiers) :
        calculation_input.waterfall_tiers[k].tier_type # "return_of_capital"

\* _validate_input: what it appends to warnings
ValidationWarnings(calculation_input) ==
    (IF OwnershipDeviates(calculation_input)
     THEN {"Total ownership is not 100%"} ELSE {})
    \cup (IF NoReturnOfCapitalTier(calculation_input)
          THEN {"No return of capital tier defined"} ELSE {})

_validate_input(calculation_input) ==
    [errors |-> ValidationErrors(calculation_input),
     warnings |-> ValidationWarnings(calculation_input)]

----------------------------------------------------------------------------
(* Waterfall engine: inputs *)

\* _create_standard_waterfall_tiers, and variants of its records
ReturnOfCapitalTier ==
    WaterfallTierDefinition("return_of_capital", "return_of_capital", None, None, None,
                            Units(100), 0)
PreferredReturnTier ==
    WaterfallTierDefinition("preferred_return", "preferred_return", Some(80), None, None, Units(100), 0)
PreferredReturnNoHurdle ==
    WaterfallTierDefinition("no_hurdle", "preferred_return", None, None, None, Units(100), 0)
CatchUpTier ==
    WaterfallTierDefinition("catch_up", "catch_up", None, Some(200), None, 0, Units(100))
PromotedCarryTier ==
    WaterfallTierDefinition("promoted_carry", "promoted_carry", None, None, Some(200),
                            Units(80), Units(20))
RemainingProceedsTier ==
    WaterfallTierDefinition("remaining_proceeds", "remaining_proceeds", None, None, None,
                            Units(80), Units(20))
RemainingProceedsUneven ==
    WaterfallTierDefinition("uneven_split", "remaining_proceeds", None, None, None,
                            Units(80), Units(10))

TierCatalogue ==
    {ReturnOfCapitalTier, PreferredReturnTier, PreferredReturnNoHurdle, CatchUpTier,
     PromotedCarryTier, RemainingProceedsTier, RemainingProceedsUneven}

TierLists == UNION {[1..n -> TierCatalogue] : n \in 0..MaxTiers}

Amounts == {0, Units(5), Units(12)}

\* fund_inception_date is day 0; the calculation date is 1461 days later
CalculationDates == {1461}

Rosters ==
    { << >>,
      <<InvestorPosition("a", Units(4), Units(4), 0, 0, 0, Units(40)),
        InvestorPosition("b", Units(6), Units(6), 0, 0, 0, Units(60))>>,
      <<InvestorPosition("a", Units(3), Units(1), 0, Units(2), 0, Units(50)),
        InvestorPosition("b", Units(3), Units(2), 0, Units(1), 0, Units(50))>>,
      <<InvestorPosition("a", Units(5), 0, Units(2), Units(5), Units(1), Units(30)),
        InvestorPosition("b", Units(5), 0, 0, Units(5), 0, Units(30))>>,
      <<InvestorPosition("a", Units(2), Units(2), 0, 0, 0, 0)>> }

WaterfallCalculationInput(amount, tiers, positions, date) ==
    [total_distribution_amount |-> amount,
     waterfall_tiers |-> tiers,
     investor_positions |-> positions,
     fund_inception_date |-> 0,
     calculation_date |-> date]

NoInput == WaterfallCalculationInput(0, << >>, << >>, 0)

WaterfallCalculationResult(calculation_input, tiers, lp_total, gp_total, summaries, positions, passed, validation) ==
    [total_distribution |-> calculation_input.total_distribution_amount,
     tier_distributions |-> tiers,
     lp_total |-> lp_total,
     gp_total |-> gp_total,
     investor_summaries |-> summaries,
     updated_investor_positions |-> positions,
     validation_passed |-> passed,
     validation_errors |-> validation.errors,
     validation_warnings |-> validation.warnings]

NoResult ==
    WaterfallCalculationResult(NoInput, << >>, 0, 0, EmptyDict, << >>, TRUE,
                               [errors |-> {}, warnings |-> {}])

----------------------------------------------------------------------------
(* Waterfall engine: calculate_waterfall *)

\* Variant: the working list holds the caller's own objects
SharePositions(positions) == [aliased |-> TRUE, dicts |-> positions]

\* [pos.__dict__.copy() for pos in calculation_input.investor_positions]: the
\* working dicts are new objects, so writes to them do not reach the caller's
CopyPositions(positions) == [aliased |-> FALSE, dicts |-> positions]

\* Variant: the loop runs over every tier
LoopNeverBreaks(remaining) == FALSE

\* if remaining_amount <= 0: break
LoopBreaks(remaining) == remaining <= 0

\* Variant: the remaining amount is not reduced
RemainingNotReduced(remaining, tier_result) == remaining

\* remaining_amount -= tier_result.distributed_amount
RemainingAfter(remaining, tier_result) == remaining - tier_result.distributed_amount

\* calculate_waterfall up to the for loop; a call that returns the failure
\* result never creates the loop's locals, which are left at their initial values
Begin(calculation_input) ==
    LET validation == _validate_input(calculation_input)
    IN  /\ wf_runs' = wf_runs + 1
        /\ wf_input' = calculation_input
        /\ caller_positions' = calculation_input.investor_positions
        /\ IF validation.errors # {}
           THEN /\ wf_pc' = "done"
                /\ wf_result' =
                      WaterfallCalculationResult(calculation_input, << >>, 0, 0, EmptyDict,
                          calculation_input.investor_positions, FALSE, validation)
                /\ remaining_amount' = 0
                /\ tier_index' = 1
                /\ tier_distributions' = << >>
                /\ updated_positions' = CopyPositions(<< >>)
                /\ UNCHANGED calculation_history
           ELSE /\ wf_pc' = "tiers"
                /\ remaining_amount' = calculation_input.total_distribution_amount
                /\ tier_index' = 1
                /\ tier_distributions' = << >>
                /\ updated_positions' = CopyPositions(calculation_input.investor_positions)
                /\ wf_result' = NoResult
                /\ UNCHANGED calculation_history

\* The first calculation for a fund: the position store supplies the roster
CalculateWaterfall ==
    /\ wf_pc = "idle"
    /\ \E amount \in Amounts, tiers \in TierLists, positions \in Rosters,
          date \in CalculationDates :
            /\ Begin(WaterfallCalculationInput(amount, tiers, positions, date))
            /\ gp_received' = SumSeq(Field(positions, "prior_carry_distributions"))
    /\ UNCHANGED <<alloc_vars, ev_vars, pe_vars, th_vars>>

\* A later calculation for the same fund: the positions returned by the last
\* one are fed back in, with the fund's tier list
CalculateWaterfallAgain ==
    /\ wf_pc = "done"
    /\ wf_runs < MaxRuns
    /\ \E amount \in Amounts :
            Begin(WaterfallCalculationInput(amount, wf_input.waterfall_tiers,
                      wf_result.updated_investor_positions, wf_input.calculation_date))
    /\ UNCHANGED gp_received
    /\ UNCHANGED <<alloc_vars, ev_vars, pe_vars, th_vars>>

\* One iteration of the for loop over waterfall_tiers
ProcessTier ==
    /\ wf_pc = "tiers"
    /\ tier_index <= Len(wf_input.waterfall_tiers)
    /\ ~LoopBreaks(remaining_amount)
    /\ LET tier_def == wf_input.waterfall_tiers[tier_index]
           outcome == _calculate_tier_distribution(tier_def, remaining_amount, wf_input,
                                                   updated_positions.dicts)
           positions == _update_positions_for_tier(outcome.positions, outcome.tier, tier_def)
       IN  /\ tier_distributions' = Append(tier_distributions, outcome.tier)
           /\ remaining_amount' = RemainingAfter(remaining_amount, outcome.tier)
           /\ updated_positions' = [updated_positions EXCEPT !.dicts = positions]
           /\ caller_positions' =
                 IF updated_positions.aliased THEN positions ELSE caller_positions
           /\ gp_received' =
                 IF tier_def.tier_type \in {"catch_up", "promoted_carry"}
                 THEN gp_received + outcome.tier.gp_amount ELSE gp_received
    /\ tier_index' = tier_index + 1
    /\ UNCHANGED <<wf_pc, wf_runs, wf_input, wf_result, calculation_history>>
    /\ UNCHANGED <<alloc_vars, ev_vars, pe_vars, th_vars>>

\* calculate_waterfall after the for loop
Finish ==
    /\ wf_pc = "tiers"
    /\ tier_index > Len(wf_input.waterfall_tiers) \/ LoopBreaks(remaining_amount)
    /\ wf_result' =
          WaterfallCalculationResult(wf_input, tier_distributions,
              SumSeq([k \in 1..Len(tier_distributions) |-> tier_distributions[k].lp_amount]),
              SumSeq([k \in 1..Len(tier_distributions) |-> tier_distributions[k].gp_amount]),
              _create_investor_summaries(tier_distributions, wf_input.investor_positions),
              updated_positions.dicts, TRUE, _validate_input(wf_input))
    /\ calculation_history' = calculation_history + 1
    /\ wf_pc' = "done"
    /\ UNCHANGED <<wf_runs, wf_input, caller_positions, remaining_amount, tier_index,
                   tier_distributions, updated_positions, gp_received>>
    /\ UNCHANGED <<alloc_vars, ev_vars, pe_vars, th_vars>>

WaterfallInit ==
    /\ wf_pc = "idle"
    /\ wf_runs = 0
    /\ wf_input = NoInput
    /\ caller_positions = << >>
    /\ remaining_amount = 0
    /\ tier_index = 1
    /\ tier_distributions = << >>
    /\ updated_positions = CopyPositions(<< >>)
    /\ wf_result = NoResult
    /\ calculation_history = 0
    /\ gp_received = 0

WaterfallNext ==
    \/ CalculateWaterfall
    \/ CalculateWaterfallAgain
    \/ ProcessTier
    \/ Finish

----------------------------------------------------------------------------
(* Waterfall engine: properties *)

Done == wf_pc = "done"
Passed == Done /\ wf_result.validation_passed

TotalOf(tiers, field) == SumSeq([k \in 1..Len(tiers) |-> tiers[k][field]])

\* What investor id was paid by the tiers of the given types
ShareOf(tiers, id, types) ==
    SumSeq([k \in 1..Len(tiers) |->
        IF tiers[k].tier_type \in types
        THEN DictGet(tiers[k].investor_distributions, id, 0) ELSE 0])

\* C1: in every calculation that passes validation, the LP amounts plus the GP
\* amounts of the tier records add up to the distributed amounts of the tier
\* records, whatever the tiers' configured percentages.
C1_LpPlusGpIsDistributed ==
    Passed =>
        TotalOf(wf_result.tier_distributions, "lp_amount")
            + TotalOf(wf_result.tier_distributions, "gp_amount")
        = TotalOf(wf_result.tier_distributions, "distributed_amount")

WithinAvailable(tiers) ==
    \A k \in 1..Len(tiers) :
        /\ 0 <= tiers[k].distributed_amount
        /\ tiers[k].distributed_amount <= tiers[k].available_amount

\* C2: every tier record, while the calculation runs and in the result, has
\* 0 <= distributed_amount <= available_amount.
C2_DistributedWithinAvailable ==
    /\ WithinAvailable(tier_distributions)
    /\ WithinAvailable(wf_result.tier_distributions)

\* C2 witness: a returned record that distributed part of what was available
C2_Witness ==
    /\ Passed
    /\ \E k \in 1..Len(wf_result.tier_distributions) :
          /\ 0 < wf_result.tier_distributions[k].distributed_amount
          /\ wf_result.tier_distributions[k].distributed_amount
                < wf_result.tier_distributions[k].available_amount

\* C3: the distributed amounts of all tier records together never exceed the
\* input distribution amount.
C3_TotalWithinInput ==
    /\ TotalOf(tier_distributions, "distributed_amount")
          <= wf_input.total_distribution_amount
    /\ TotalOf(wf_result.tier_distributions, "distributed_amount")
          <= wf_result.total_distribution

\* C3 witness: a tier list that names one tier twice, both paying, and the
\* input amount used up
C3_Witness ==
    /\ Passed
    /\ Len(wf_result.tier_distributions) = 2
    /\ wf_result.tier_distributions[1].tier_id = wf_result.tier_distributions[2].tier_id
    /\ wf_result.tier_distributions[1].distributed_amount > 0
    /\ wf_result.tier_distributions[2].distributed_amount > 0

\* C4: the records follow the input list in order; the first is offered the
\* input amount, each later one what the one before left; a record is made
\* only while something remains, and the list is cut short only when nothing
\* remains.
C4_SequentialTiers ==
    LET tiers == wf_input.waterfall_tiers
        records == tier_distributions
        left(k) == records[k].available_amount - records[k].distributed_amount
    IN  /\ Len(records) <= Len(tiers)
        /\ \A k \in 1..Len(records) :
              /\ records[k].tier_id = tiers[k].tier_id
              /\ records[k].available_amount =
                    IF k = 1 THEN wf_input.total_distribution_amount ELSE left(k - 1)
              /\ k < Len(records) => left(k) > 0
        /\ Passed =>
              /\ wf_result.tier_distributions = records
              /\ Len(records) >= 1
              /\ Len(records) < Len(tiers) => left(Len(records)) <= 0

\* C4 witness: a calculation that stopped before the end of its tier list
C4_Witness ==
    /\ Passed
    /\ Len(wf_result.tier_distributions) >= 1
    /\ Len(wf_result.tier_distributions) < Len(wf_input.waterfall_tiers)

\* C5: the result is a failure exactly when the amount is not positive, or the
\* tier list or the position list is empty; a failure has no tier records,
\* zero totals and the positions as supplied; an ownership total off 100 by
\* more than 0.01 and a tier list without return of capital are warnings, in
\* failures and in calculations that go through alike.
C5_HardFailureExactlyOnErrors ==
    Done =>
        LET rejected == \/ wf_input.total_distribution_amount <= 0
                        \/ Len(wf_input.waterfall_tiers) = 0
                        \/ Len(wf_input.investor_positions) = 0
            ownership == SumSeq([i \in 1..Len(wf_input.investor_positions) |->
                            wf_input.investor_positions[i].ownership_percentage.v])
            off == ownership - Units(100) > 10 \/ Units(100) - ownership > 10
            no_roc == \A k \in 1..Len(wf_input.waterfall_tiers) :
                          wf_input.waterfall_tiers[k].tier_type # "return_of_capital"
        IN  /\ wf_result.validation_passed <=> ~rejected
            /\ (wf_result.validation_errors # {}) <=> rejected
            /\ rejected =>
                  /\ wf_result.tier_distributions = << >>
                  /\ wf_result.lp_total = 0
                  /\ wf_result.gp_total = 0
                  /\ wf_result.updated_investor_positions = wf_input.investor_positions
                  /\ caller_positions = wf_input.investor_positions
            /\ ~rejected => Len(wf_result.tier_distributions) >= 1
            /\ off <=> "Total ownership is not 100%" \in wf_result.validation_warnings
            /\ no_roc <=> "No return of capital tier defined" \in wf_result.validation_warnings

\* C5 witness: a calculation that went through, tiers evaluated, with both
\* warnings raised
C5_Witness ==
    /\ Passed
    /\ Cardinality(wf_result.validation_warnings) = 2
    /\ TotalOf(wf_result.tier_distributions, "distributed_amount") > 0

\* C6: in a calculation that passes validation each returned position has the
\* supplied prior_distributions plus the investor's shares of all tiers, and
\* the supplied unreturned_contributions minus the investor's return-of-capital
\* shares; the caller's position objects keep the values they were supplied
\* with.
C6_PositionsCarryEveryTier ==
    /\ wf_pc # "idle" => caller_positions = wf_input.investor_positions
    /\ Passed =>
          /\ Len(wf_result.updated_investor_positions) = Len(wf_input.investor_positions)
          /\ \A i \in 1..Len(wf_input.investor_positions) :
                LET before == wf_input.investor_positions[i]
                    after == wf_result.updated_investor_positions[i]
                IN  /\ after.investor_id = before.investor_id
                    /\ DecimalOfStr(after.prior_distributions) =
                          DecimalOfStr(before.prior_distributions)
                          + ShareOf(wf_result.tier_distributions, before.investor_id,
                                    WaterfallTier)
                    /\ DecimalOfStr(after.unreturned_contributions) =
                          DecimalOfStr(before.unreturned_contributions)
                          - ShareOf(wf_result.tier_distributions, before.investor_id,
                                    {"return_of_capital"})

\* C6 witness: a second calculation, fed the positions the first returned, has
\* paid an investor both return of capital and a later tier's share
C6_Witness ==
    /\ Passed
    /\ wf_runs = 2
    /\ \E i \in 1..Len(wf_input.investor_positions) :
          LET id == wf_input.investor_positions[i].investor_id
          IN  /\ wf_input.investor_positions[i].prior_distributions.t = "str"
              /\ ShareOf(wf_result.tier_distributions, id, {"return_of_capital"}) > 0
              /\ ShareOf(wf_result.tier_distributions, id, WaterfallTier)
                    > ShareOf(wf_result.tier_distributions, id, {"return_of_capital"})

\* The tier record the loop has just appended, with the working positions it
\* was computed from and those it left
TierStep(type) ==
    /\ Len(tier_distributions') = Len(tier_distributions) + 1
    /\ tier_distributions'[Len(tier_distributions')].tier_type = type

\* A share is the amount times part / whole, up to the rounding of the
\* quotient and of the product
InProportion(share, part, whole, amount) ==
    2 * Abs(share * whole - part * amount) <= whole * ((amount + Scale - 1) \div Scale + 1)

\* C24: a return-of-capital tier distributes min(available, total unreturned),
\* all of it to the LPs, split in proportion to the unreturned contributions;
\* each investor's unreturned contributions go down by exactly its share and
\* never below zero; with no unreturned capital left the tier distributes
\* nothing and leaves the whole available amount.
C24_ReturnOfCapitalRepaysUnreturned ==
    [][TierStep("return_of_capital") =>
        LET record == tier_distributions'[Len(tier_distributions')]
            before == updated_positions.dicts
            after == updated_positions'.dicts
            unreturned == Field(before, "unreturned_contributions")
            total_unreturned == SumSeq(unreturned)
            share(i) == DictGet(record.investor_distributions, before[i].investor_id, 0)
        IN  /\ record.gp_amount = 0
            /\ record.lp_amount = record.distributed_amount
            /\ record.remaining_amount = record.available_amount - record.distributed_amount
            /\ total_unreturned <= 0 =>
                  /\ record.distributed_amount = 0
                  /\ record.investor_distributions = EmptyDict
                  /\ after = before
            /\ total_unreturned > 0 =>
                  /\ record.distributed_amount =
                        Min(record.available_amount, total_unreturned)
                  /\ \A i \in 1..Len(before) :
                        /\ InProportion(share(i), unreturned[i], total_unreturned,
                                        record.distributed_amount)
                        /\ DecimalOfStr(after[i].unreturned_contributions) =
                              unreturned[i] - share(i)
                        /\ DecimalOfStr(after[i].unreturned_contributions) >= 0
    ]_vars

\* C24: what holds of the tier once "never below zero" is left out
C24_SharesComeOffUnreturned ==
    [][TierStep("return_of_capital") =>
        LET record == tier_distributions'[Len(tier_distributions')]
            before == updated_positions.dicts
            after == updated_positions'.dicts
            unreturned == Field(before, "unreturned_contributions")
            total_unreturned == SumSeq(unreturned)
            share(i) == DictGet(record.investor_distributions, before[i].investor_id, 0)
        IN  /\ record.gp_amount = 0
            /\ record.lp_amount = record.distributed_amount
            /\ total_unreturned <= 0 => record.distributed_amount = 0 /\ after = before
            /\ total_unreturned > 0 =>
                  /\ record.distributed_amount =
                        Min(record.available_amount, total_unreturned)
                  /\ \A i \in 1..Len(before) :
                        /\ InProportion(share(i), unreturned[i], total_unreturned,
                                        record.distributed_amount)
                        /\ DecimalOfStr(after[i].unreturned_contributions) =
                              unreturned[i] - share(i)
    ]_vars

\* C24: a position whose unreturned contributions the tier has taken below zero
C24_UnreturnedBelowZero ==
    \E i \in 1..Len(updated_positions.dicts) :
        DecimalOfStr(updated_positions.dicts[i].unreturned_contributions) < 0

\* C25: a catch-up tier pays the GP min(available, max(0, target - what the GP
\* has received)) and the LPs nothing, where what the GP has received is what
\* earlier catch-up and carry tiers paid it, in this calculation and in the
\* earlier ones whose positions were fed back; a catch-up that was paid is
\* not paid again.
C25_CatchUpCountsWhatGpReceived ==
    [][TierStep("catch_up") =>
        LET record == tier_distributions'[Len(tier_distributions')]
            tier_def == wf_input.waterfall_tiers[tier_index]
            catch_up_rate == tier_def.catch_up_rate[1]
            target_gp_carry ==
                DecMul(SumSeq(Field(updated_positions.dicts, "prior_distributions")),
                       DecDiv(catch_up_rate, Units(1) - catch_up_rate))
        IN  ~Falsy(tier_def.catch_up_rate) =>
                /\ record.lp_amount = 0
                /\ record.investor_distributions = EmptyDict
                /\ record.gp_amount = record.distributed_amount
                /\ record.distributed_amount =
                      Min(record.available_amount, Max(0, target_gp_carry - gp_received))
    ]_vars

\* C25: one calculation in which two catch-up tiers each paid the GP the same
\* catch-up
C25_CatchUpPaidTwice ==
    /\ Len(tier_distributions) = 2
    /\ \A k \in 1..2 :
          /\ tier_distributions[k].tier_type = "catch_up"
          /\ tier_distributions[k].gp_amount > 0
    /\ tier_distributions[1].gp_amount = tier_distributions[2].gp_amount

SharesAddUp(tiers) ==
    \A k \in 1..Len(tiers) :
        SumDict(tiers[k].investor_distributions) = tiers[k].lp_amount

\* C29: in every tier record, of every tier type and over every set of
\* positions, the investors' shares add up to the record's lp_amount.
C29_SharesAddUpToLpAmount ==
    /\ SharesAddUp(tier_distributions)
    /\ SharesAddUp(wf_result.tier_distributions)

\* C29: a returned record with an LP amount and no investor paid, over
\* positions whose ownership percentages sum to zero
C29_LpAmountWithoutShares ==
    /\ Passed
    /\ SumSeq(Field(wf_input.investor_positions, "ownership_percentage")) = 0
    /\ \E k \in 1..Len(wf_result.tier_distributions) :
          /\ wf_result.tier_distributions[k].lp_amount > 0
          /\ wf_result.tier_distributions[k].investor_distributions = EmptyDict

\* The preferred-return tiers with a hurdle rate that the calculation ran
HurdleTiersRun ==
    {k \in 1..Len(wf_result.tier_distributions) :
        /\ wf_input.waterfall_tiers[k].tier_type = "preferred_return"
        /\ ~Falsy(wf_input.waterfall_tiers[k].hurdle_rate)}

\* C30: after a calculation that ran a preferred-return tier, each returned
\* position's preferred_return_shortfall is max(0, target cumulative preferred
\* return - the returned cumulative_preferred_return): zero when the
\* preferred return was paid in full.
C30_ShortfallIsWhatRemainsOwed ==
    Passed =>
        \A k \in HurdleTiersRun :
            \A i \in 1..Len(wf_result.updated_investor_positions) :
                LET after == wf_result.updated_investor_positions[i]
                    hurdle_rate == wf_input.waterfall_tiers[k].hurdle_rate[1]
                    cumulative_preferred ==
                        DecMul(DecMul(DecimalOfStr(after.total_contributions), hurdle_rate),
                               YearsSinceInception(wf_input))
                IN  DecimalOfStr(after.preferred_return_shortfall) =
                        Max(0, cumulative_preferred
                               - DecimalOfStr(after.cumulative_preferred_return))

\* C30: a returned position whose preferred return was paid in full and whose
\* preferred_return_shortfall is the amount that was paid
C30_PaidInFullStillShort ==
    /\ Passed
    /\ HurdleTiersRun # {}
    /\ \E i \in 1..Len(wf_result.updated_investor_positions) :
          LET before == wf_input.investor_positions[i]
              after == wf_result.updated_investor_positions[i]
              paid == DecimalOfStr(after.cumulative_preferred_return)
                        - DecimalOfStr(before.cumulative_preferred_return)
          IN  /\ paid > 0
              /\ DecimalOfStr(after.preferred_return_shortfall) = paid

----------------------------------------------------------------------------
(* Allocation engine: data.  Amounts are floats in the code; the model keeps *)
(* them whole numbers of one unit of capital, for which float arithmetic is  *)
(* exact.  Rates and scores are floats too, kept here in millionths.         *)

Million == 1000000

\* Amounts are Python floats: every sum and difference is rounded to the
\* significand, half to even.  Python's float keeps 53 significant bits; the
\* model keeps MantissaBits, so that rounding shows at small amounts.
RECURSIVE Ulp(_, _)
Ulp(x, u) == IF Abs(x) < u * 2 ^ MantissaBits THEN u ELSE Ulp(x, 2 * u)

Float(x) == LET u == Ulp(x, 1) IN RoundHalfEven(x, u) * u

FloatAdd(a, b) == Float(a + b)
FloatSub(a, b) == Float(a - b)

\* sum(values): the additions start at 0 and go left to right
RECURSIVE FloatSum(_, _)
FloatSum(values, start) ==
    IF values = << >> THEN start
    ELSE FloatSum(Tail(values), FloatAdd(start, Head(values)))

FundStructure(id, type, target, min, max, max_inv, eligible, restricted, fee, carry, strategy) ==
    [fund_id |-> id, structure_type |-> type, target_size |-> target,
     min_commitment |-> min, max_commitment |-> max, max_investors |-> max_inv,
     eligible_investor_types |-> eligible, restricted_jurisdictions |-> restricted,
     management_fee_rate |-> fee, carry_rate |-> carry,
     allocation_strategy |-> strategy, committed_capital |-> 0]

\* The vehicles registered with add_fund, in the order they were added
FundOrder == <<"MAIN", "PARALLEL", "FEEDER">>
FundIds == {FundOrder[i] : i \in 1..Len(FundOrder)}

RegisteredFunds ==
    [id \in FundIds |->
        CASE id = "MAIN" ->
                FundStructure(id, "main", 6, 2, None, Some(1),
                              {"institutional", "qualified_purchaser"}, {"IRN"},
                              20000, 200000, "pro_rata")
          [] id = "PARALLEL" ->
                FundStructure(id, "parallel", 14, 1, None, None,
                              {}, {}, 20000, 200000, "pro_rata")
          [] id = "FEEDER" ->
                FundStructure(id, "feeder", 5, 3, Some(5), None,
                              {"non_us", "institutional"}, {"USA"},
                              25000, 200000, "first_come_first_served")]

\* committed_capital of the vehicles when the engine is handed them
InitialCommitted ==
    { [id \in FundIds |-> 0],
      [id \in FundIds |-> CASE id = "MAIN" -> 4 [] id = "PARALLEL" -> 12 [] OTHER -> 0],
      [id \in FundIds |-> CASE id = "MAIN" -> 5 [] id = "PARALLEL" -> 14 [] OTHER -> 1] }

InvestorIds == {"INV-001", "INV-002"}

AllocationRequest(investor, amount, type, jurisdiction, preference, tax, erisa) ==
    [investor_id |-> investor, requested_amount |-> amount, investor_type |-> type,
     jurisdiction |-> jurisdiction, preference_order |-> preference,
     tax_transparent_required |-> tax, erisa_percentage |-> erisa]

\* requested_amount: float = Field(gt=0)
RequestAmounts == {1, 3, 14}
\* preference_order: ranked fund ids, each named once
PreferenceOrders ==
    { << >>, <<"PARALLEL", "MAIN">>, <<"FEEDER", "PARALLEL", "MAIN">> }
\* investor_type, jurisdiction, tax_transparent_required, erisa_percentage
RequestProfiles ==
    { <<"institutional", "USA", FALSE, Some(15)>>,
      <<"non_us", "IRN", TRUE, None>>,
      <<"institutional", "IRN", FALSE, Some(30)>> }

Requests ==
    { AllocationRequest(i, a, f[1], f[2], p, f[3], f[4]) :
        i \in InvestorIds, a \in RequestAmounts, p \in PreferenceOrders,
        f \in RequestProfiles }

NoRequest == AllocationRequest("", 1, "", "", << >>, FALSE, None)

Reason(rule, detail) == [rule |-> rule, detail |-> detail]

AllocationScore(id, score, eligible, reasons) ==
    [fund_id |-> id, score |-> score, eligible |-> eligible, rejection_reasons |-> reasons]

AllocationResult(request, total, status, allocs, reasons, alternatives) ==
    [investor_id |-> request.investor_id,
     total_requested |-> request.requested_amount,
     total_allocated |-> total,
     allocation_status |-> status,
     allocations |-> allocs,
     rejection_reasons |-> reasons,
     alternative_funds |-> alternatives]

Returned(result) == [kind |-> "returned", result |-> result]
Raised(error) == [kind |-> "raised", error |-> error]
NoOutcome == [kind |-> "none"]

----------------------------------------------------------------------------
(* Allocation engine: allocate_investor and what it calls.  The operators    *)
(* take the fund registry they read, so that a call can be followed through  *)
(* the commitments it makes on the way.                                      *)

\* len([a for a in self.allocations if a.fund_id == fund_id])
_count_fund_investors(fund_id) ==
    Cardinality({k \in 1..Len(allocations) : allocations[k].fund_id = fund_id})

\* current_erisa_percentage = 0.0  # Placeholder
_check_erisa_limit_exceeded(fund, new_erisa_percentage) ==
    0 + new_erisa_percentage > 25

\* The rejection reasons, in the order the rules are checked
_check_eligibility(fund, request) ==
    LET available_capacity == FloatSub(fund.target_size, fund.committed_capital)
    IN  (IF /\ fund.eligible_investor_types # {}
            /\ request.investor_type \notin fund.eligible_investor_types
         THEN <<Reason("Investor type not eligible for fund", request.investor_type)>>
         ELSE << >>)
        \o (IF request.jurisdiction \in fund.restricted_jurisdictions
            THEN <<Reason("Jurisdiction is restricted", request.jurisdiction)>>
            ELSE << >>)
        \o (IF request.requested_amount < fund.min_commitment
            THEN <<Reason("Requested amount below minimum commitment",
                          fund.min_commitment)>>
            ELSE << >>)
        \o (IF ~Falsy(fund.max_commitment)
               /\ request.requested_amount > fund.max_commitment[1]
            THEN <<Reason("Requested amount exceeds maximum commitment",
                          fund.max_commitment[1])>>
            ELSE << >>)
        \o (IF available_capacity <= 0
            THEN <<Reason("Fund is fully subscribed", 0)>>
            ELSE << >>)
        \o (IF ~Falsy(fund.max_investors)
               /\ _count_fund_investors(fund.fund_id) >= fund.max_investors[1]
            THEN <<Reason("Fund has reached maximum investor limit",
                          fund.max_investors[1])>>
            ELSE << >>)
        \o (IF /\ ~Falsy(request.erisa_percentage)
               /\ fund.structure_type = "main"
               /\ _check_erisa_limit_exceeded(fund, request.erisa_percentage[1])
            THEN <<Reason("Would exceed 25% ERISA limit", 0)>>
            ELSE << >>)
        \o (IF /\ request.tax_transparent_required
               /\ fund.structure_type \notin {"main", "parallel"}
            THEN <<Reason("Fund structure is not tax transparent", 0)>>
            ELSE << >>)

\* An allocation of the investor in a sibling, child or parent of the fund;
\* the vehicles of the model name none
RelatedFunds(fund) == {}

_investor_in_related_funds(investor_id, fund) ==
    \E k \in 1..Len(allocations) :
        /\ allocations[k].investor_id = investor_id
        /\ allocations[k].fund_id \in RelatedFunds(fund)

\* sum(factors.values()), in millionths
_calculate_scoring_factors(fund, request) ==
    LET structure_preference ==
            CASE fund.structure_type = "main" -> 1000000
              [] fund.structure_type = "parallel" -> 900000
              [] fund.structure_type = "feeder" -> 800000
              [] fund.structure_type = "master" -> 700000
              [] fund.structure_type = "blocker" -> 600000
              [] OTHER -> 500000
        available_capacity == FloatSub(fund.target_size, fund.committed_capital)
        capacity_score ==
            IF fund.target_size > 0
            THEN RoundHalfEven(available_capacity * (Million \div 2), fund.target_size)
            ELSE 0
        investor_type_match ==
            IF request.investor_type \in fund.eligible_investor_types THEN 300000 ELSE 0
        fee_advantage ==
            (Million - (fund.management_fee_rate + fund.carry_rate)) \div 5
        relationship_bonus ==
            IF _investor_in_related_funds(request.investor_id, fund) THEN 200000 ELSE 0
    IN  structure_preference + capacity_score + investor_type_match
            + fee_advantage + relationship_bonus

\* One AllocationScore per fund, in the registry's order
_score_funds_for_investor(registry, request) ==
    [k \in 1..Len(FundOrder) |->
        LET fund == registry[FundOrder[k]]
            rejection_reasons == _check_eligibility(fund, request)
        IN  IF rejection_reasons # << >>
            THEN AllocationScore(fund.fund_id, 0, FALSE, rejection_reasons)
            ELSE AllocationScore(fund.fund_id, _calculate_scoring_factors(fund, request),
                                 TRUE, << >>)]

\* No filter: every scored fund goes on to the allocation
AllScored(scores) == scores

\* [fs for fs in fund_scores if fs.eligible]
RECURSIVE EligibleOnly(_)
EligibleOnly(scores) ==
    IF scores = << >> THEN << >>
    ELSE IF Head(scores).eligible
         THEN <<Head(scores)>> \o EligibleOnly(Tail(scores))
         ELSE EligibleOnly(Tail(scores))

\* preference_index.get(score.fund_id, len(preference_order)), where
\* preference_index = {fund_id: i for i, fund_id in enumerate(preference_order)}
PreferenceValue(preference_order, fund_id) ==
    LET at == {i \in 1..Len(preference_order) : preference_order[i] = fund_id}
    IN  IF at = {} THEN Len(preference_order)
        ELSE (CHOOSE i \in at : \A j \in at : j <= i) - 1

\* The key turned round: (-score, pref_value)
KeyLessByScore(a, b, preference_order) ==
    LET pa == PreferenceValue(preference_order, a.fund_id)
        pb == PreferenceValue(preference_order, b.fund_id)
    IN  -a.score < -b.score \/ (a.score = b.score /\ pa < pb)

\* sort_key: (pref_value, -score), compared as tuples
KeyLess(a, b, preference_order) ==
    LET pa == PreferenceValue(preference_order, a.fund_id)
        pb == PreferenceValue(preference_order, b.fund_id)
    IN  pa < pb \/ (pa = pb /\ -a.score < -b.score)

\* sorted() is stable: x goes after every element that does not sort after it
RECURSIVE InsertSorted(_, _, _)
InsertSorted(x, sorted, preference_order) ==
    IF sorted = << >> THEN <<x>>
    ELSE IF KeyLess(x, Head(sorted), preference_order)
         THEN <<x>> \o sorted
         ELSE <<Head(sorted)>> \o InsertSorted(x, Tail(sorted), preference_order)

RECURSIVE SortedStable(_, _, _)
SortedStable(todo, sorted, preference_order) ==
    IF todo = << >> THEN sorted
    ELSE SortedStable(Tail(todo), InsertSorted(Head(todo), sorted, preference_order),
                      preference_order)

_sort_funds_by_preference(eligible_funds, preference_order) ==
    SortedStable(eligible_funds, << >>, preference_order)

\* return 0.0  # Placeholder
_calculate_total_demand(fund_id) == 0

_apply_pro_rata(fund, requested_amount) ==
    LET total_demand == _calculate_total_demand(fund.fund_id)
        available_capacity == FloatSub(fund.target_size, fund.committed_capital)
    IN  IF total_demand > available_capacity
        THEN RoundHalfEven(requested_amount * available_capacity, total_demand)
        ELSE requested_amount

\* The whole capacity of the fund, whatever is left of the request
WholeCapacity(fund, remaining) ==
    FloatSub(fund.target_size, fund.committed_capital)

\* pro_rata_factor = available_capacity / total_demand, reached when
\* total_demand > available_capacity
ProRataDividesByZero(fund) ==
    /\ fund.allocation_strategy = "pro_rata"
    /\ _calculate_total_demand(fund.fund_id)
           > FloatSub(fund.target_size, fund.committed_capital)
    /\ _calculate_total_demand(fund.fund_id) = 0

\* allocation_amount for one fund of the loop
AllocationAmount(fund, remaining) ==
    LET available_capacity == FloatSub(fund.target_size, fund.committed_capital)
        by_capacity == Min(remaining, available_capacity)
        by_commitment ==
            IF ~Falsy(fund.max_commitment)
            THEN Min(by_capacity, fund.max_commitment[1]) ELSE by_capacity
    IN  IF fund.allocation_strategy = "pro_rata"
        THEN _apply_pro_rata(fund, by_commitment)
        ELSE by_commitment

\* The allocation reported and the fund left as it was
CommitNothing(fund, allocation_amount) == fund

\* fund.committed_capital += allocation_amount
Commit(fund, allocation_amount) ==
    [fund EXCEPT !.committed_capital = FloatAdd(@, allocation_amount)]

\* The loop of _allocate_to_funds from one position of sorted_funds on: the
\* allocations appended and the registry as the loop leaves it
RECURSIVE AllocateFrom(_, _, _, _, _)
AllocateFrom(sorted_funds, remaining, request, registry, allocs) ==
    IF sorted_funds = << >> \/ remaining <= 0
    THEN [allocations |-> allocs, funds |-> registry]
    ELSE LET fund == registry[Head(sorted_funds).fund_id]
             allocation_amount == AllocationAmount(fund, remaining)
         IN  IF allocation_amount > 0
             THEN AllocateFrom(Tail(sorted_funds), FloatSub(remaining, allocation_amount), request,
                      [registry EXCEPT ![fund.fund_id] = Commit(fund, allocation_amount)],
                      Append(allocs,
                          [fund_id |-> fund.fund_id,
                           structure_type |-> fund.structure_type,
                           allocated_amount |-> allocation_amount,
                           percentage |->
                              RoundHalfEven(allocation_amount * 100 * Scale,
                                            request.requested_amount)]))
             ELSE AllocateFrom(Tail(sorted_funds), remaining, request, registry, allocs)

_allocate_to_funds(request, sorted_funds, registry) ==
    AllocateFrom(sorted_funds, request.requested_amount, request, registry, << >>)

\* The funds turned down for a minimum-commitment reason, the first three
_find_alternative_funds(registry, all_scores) ==
    LET hit(score) ==
            /\ ~score.eligible
            /\ \E r \in 1..Len(score.rejection_reasons) :
                  score.rejection_reasons[r].rule = "Requested amount below minimum commitment"
        alternatives ==
            SelectSeq([k \in 1..Len(all_scores) |->
                          [fund_id |-> all_scores[k].fund_id,
                           min_commitment |-> registry[all_scores[k].fund_id].min_commitment,
                           suggested |-> hit(all_scores[k])]],
                      LAMBDA a : a.suggested)
    IN  SubSeq(alternatives, 1, Min(3, Len(alternatives)))

AllocationStatus(total_allocated, requested_amount) ==
    IF total_allocated = 0 THEN "rejected"
    ELSE IF total_allocated >= requested_amount THEN "full" ELSE "partial"

_create_allocation_result(request, allocs, all_scores, registry) ==
    LET total_allocated ==
            FloatSum([k \in 1..Len(allocs) |-> allocs[k].allocated_amount], 0)
        status == AllocationStatus(total_allocated, request.requested_amount)
    IN  AllocationResult(request, total_allocated, status, allocs, {},
            IF status \in {"partial", "rejected"}
            THEN _find_alternative_funds(registry, all_scores) ELSE << >>)

_create_rejection_result(request, all_scores, registry) ==
    AllocationResult(request, 0, "rejected", << >>,
        UNION {{all_scores[k].rejection_reasons[r] :
                    r \in 1..Len(all_scores[k].rejection_reasons)} :
               k \in 1..Len(all_scores)},
        _find_alternative_funds(registry, all_scores))

\* No look at self.investors
AnyInvestor(request) == TRUE

\* if request.investor_id not in self.investors: raise AllocationError
InvestorKnown(request) == request.investor_id \in investors

allocate_investor(request) ==
    /\ alloc_calls < MaxCalls
    /\ alloc_calls' = alloc_calls + 1
    /\ alloc_request' = request
    /\ IF ~InvestorKnown(request)
       THEN /\ alloc_outcome' = Raised("AllocationError")
            /\ fund_scores' = << >>
            /\ UNCHANGED <<funds, accepted>>
       ELSE LET scores == _score_funds_for_investor(funds, request)
                eligible_funds == EligibleOnly(scores)
                sorted_funds ==
                    _sort_funds_by_preference(eligible_funds, request.preference_order)
                done == _allocate_to_funds(request, sorted_funds, funds)
                result ==
                    IF eligible_funds = << >>
                    THEN _create_rejection_result(request, scores, funds)
                    ELSE _create_allocation_result(request, done.allocations, scores,
                                                   done.funds)
                raises ==
                    \E k \in 1..Len(sorted_funds) :
                        ProRataDividesByZero(funds[sorted_funds[k].fund_id])
            IN  /\ fund_scores' = scores
                /\ IF raises
                   THEN /\ alloc_outcome' = Raised("ZeroDivisionError")
                        /\ UNCHANGED <<funds, accepted>>
                   ELSE /\ funds' = IF eligible_funds = << >> THEN funds ELSE done.funds
                        /\ alloc_outcome' = Returned(result)
                        /\ accepted' = Append(accepted, result)
    /\ UNCHANGED <<investors, allocations, committed_before>>
    /\ UNCHANGED <<wf_vars, ev_vars, pe_vars, th_vars>>

AllocateInvestor == \E request \in Requests : allocate_investor(request)

\* add_investor
AddInvestor ==
    /\ \E id \in InvestorIds \ investors : investors' = investors \cup {id}
    /\ UNCHANGED <<funds, allocations, alloc_calls, alloc_request, fund_scores,
                   alloc_outcome, committed_before, accepted>>
    /\ UNCHANGED <<wf_vars, ev_vars, pe_vars, th_vars>>

\* The engine with its vehicles added and one investor registered
AllocationInit ==
    /\ \E committed \in InitialCommitted :
          /\ funds = [id \in FundIds |->
                        [RegisteredFunds[id] EXCEPT !.committed_capital = committed[id]]]
          /\ committed_before = committed
    /\ investors = {"INV-001"}
    /\ allocations = << >>
    /\ alloc_calls = 0
    /\ alloc_request = NoRequest
    /\ fund_scores = << >>
    /\ alloc_outcome = NoOutcome
    /\ accepted = << >>

\* The engine before any fund or investor is added to it
AllocationIdle ==
    /\ funds = [id \in FundIds |-> RegisteredFunds[id]]
    /\ committed_before = [id \in FundIds |-> 0]
    /\ investors = {}
    /\ allocations = << >>
    /\ alloc_calls = 0
    /\ alloc_request = NoRequest
    /\ fund_scores = << >>
    /\ alloc_outcome = NoOutcome
    /\ accepted = << >>

AllocationNext ==
    \/ AllocateInvestor
    \/ AddInvestor

----------------------------------------------------------------------------
(* Allocation engine: properties *)

\* The last call returned a result
ReturnedResult == alloc_outcome.kind = "returned"

LastResult == alloc_outcome.result

AllocatedAmounts(result) ==
    [k \in 1..Len(result.allocations) |-> result.allocations[k].allocated_amount]

\* The allocated amounts of a result summed as Python sums floats
SumAllocated(result) == FloatSum(AllocatedAmounts(result), 0)

\* What one result reports for one fund
ReportedFor(result, id) ==
    SumSeq([k \in 1..Len(result.allocations) |->
        IF result.allocations[k].fund_id = id
        THEN result.allocations[k].allocated_amount ELSE 0])

C9_RaisesOnlyForUnknownInvestor ==
    [][alloc_calls' # alloc_calls =>
          IF alloc_request'.investor_id \notin investors
          THEN /\ alloc_outcome'.kind = "raised"
               /\ \A id \in FundIds :
                     funds'[id].committed_capital = funds[id].committed_capital
          ELSE /\ alloc_outcome'.kind = "returned"
               /\ alloc_outcome'.result.allocation_status
                     \in {"full", "partial", "rejected"}]_vars

\* A call for an unregistered investor raised after a registered investor's
\* call had returned a result and committed capital
C9_Witness ==
    /\ alloc_outcome.kind = "raised"
    /\ alloc_request.investor_id \notin investors
    /\ Len(accepted) = 1
    /\ \E id \in FundIds : funds[id].committed_capital # committed_before[id]

\* Rank of a fund in the request's preference list; funds not named come last
Rank(preference_order, id) ==
    IF \E i \in 1..Len(preference_order) : preference_order[i] = id
    THEN CHOOSE i \in 1..Len(preference_order) : preference_order[i] = id
    ELSE Len(preference_order) + 1

ScoreOf(id) ==
    LET k == CHOOSE k \in 1..Len(fund_scores) : fund_scores[k].fund_id = id
    IN  fund_scores[k]

\* f goes before g: earlier in the preference list, or of the same rank with
\* the higher score
GoesBefore(f, g) ==
    LET rf == Rank(alloc_request.preference_order, f)
        rg == Rank(alloc_request.preference_order, g)
    IN  rf < rg \/ (rf = rg /\ ScoreOf(f).score > ScoreOf(g).score)

\* C10: the funds of a result are filled in the order (rank in the preference
\* list ascending, then score descending): no fund of the result goes before
\* one filled earlier, and an eligible fund that goes before a filled one was
\* filled too.
C10_FilledInPreferenceThenScoreOrder ==
    ReturnedResult =>
        LET filled == [k \in 1..Len(LastResult.allocations) |->
                          LastResult.allocations[k].fund_id]
        IN  /\ \A i, j \in 1..Len(filled) :
                  i < j => ~GoesBefore(filled[j], filled[i])
            /\ \A j \in 1..Len(filled) : \A g \in FundIds :
                  (ScoreOf(g).eligible /\ GoesBefore(g, filled[j]))
                      => \E i \in 1..Len(filled) : i < j /\ filled[i] = g

\* A fund named in the preference list was filled before a fund that is not
\* named and has the higher score
C10_Witness ==
    /\ ReturnedResult
    /\ Len(LastResult.allocations) = 2
    /\ LET first == LastResult.allocations[1].fund_id
           second == LastResult.allocations[2].fund_id
       IN  /\ Rank(alloc_request.preference_order, first)
                 <= Len(alloc_request.preference_order)
           /\ Rank(alloc_request.preference_order, second)
                 > Len(alloc_request.preference_order)
           /\ ScoreOf(first).score < ScoreOf(second).score

\* The rejection reasons of a fund, as a set of rule names
ReasonsOf(score) ==
    {score.rejection_reasons[r].rule : r \in 1..Len(score.rejection_reasons)}

\* C11: a result that is not 'full' suggests at most 3 alternative vehicles,
\* each one an ineligible vehicle whose only rejection reason is that the
\* requested amount is below its minimum commitment, and each suggestion
\* names that vehicle's minimum commitment.
C11_AlternativesOnlyForMinimumShortfall ==
    (ReturnedResult /\ LastResult.allocation_status # "full")
        => /\ Len(LastResult.alternative_funds) <= 3
           /\ \A k \in 1..Len(LastResult.alternative_funds) :
                 LET alternative == LastResult.alternative_funds[k]
                     score == ScoreOf(alternative.fund_id)
                 IN  /\ ~score.eligible
                     /\ ReasonsOf(score) = {"Requested amount below minimum commitment"}
                     /\ alternative.min_commitment
                           = funds[alternative.fund_id].min_commitment

\* The investors a returned result reports an allocation for, per fund
InvestorsAcceptedIn(id) ==
    {accepted[k].investor_id : k \in {j \in 1..Len(accepted) : ReportedFor(accepted[j], id) > 0}}

\* C12: for a vehicle with max_investors set, the number of investors that
\* have received an accepted allocation in it never exceeds max_investors.
C12_InvestorCapNeverExceeded ==
    \A id \in FundIds :
        ~Falsy(funds[id].max_investors)
            => Cardinality(InvestorsAcceptedIn(id)) <= funds[id].max_investors[1]

\* The eligibility rules of a vehicle that a request fails, as the claim
\* words them, against the registry the call found
FailsCategory(fund, request, restricted_only) ==
    /\ restricted_only => fund.eligible_investor_types # {}
    /\ request.investor_type \notin fund.eligible_investor_types

FailsJurisdiction(fund, request) ==
    request.jurisdiction \in fund.restricted_jurisdictions

FailsMinimum(fund, request) == request.requested_amount < fund.min_commitment

FailsMaximum(fund, request) ==
    fund.max_commitment # None /\ request.requested_amount > fund.max_commitment[1]

FailsCapacity(fund) == FloatSub(fund.target_size, fund.committed_capital) <= 0

FailsTransparency(fund, request) ==
    request.tax_transparent_required /\ fund.structure_type \notin {"main", "parallel"}

\* Each failing rule has its reason among the reasons scored for the fund
ReasonsCoverFailures(fund, request, score, category_fails) ==
    /\ category_fails => "Investor type not eligible for fund" \in ReasonsOf(score)
    /\ FailsJurisdiction(fund, request) => "Jurisdiction is restricted" \in ReasonsOf(score)
    /\ FailsMinimum(fund, request)
          => "Requested amount below minimum commitment" \in ReasonsOf(score)
    /\ FailsMaximum(fund, request)
          => "Requested amount exceeds maximum commitment" \in ReasonsOf(score)
    /\ FailsCapacity(fund) => "Fund is fully subscribed" \in ReasonsOf(score)
    /\ FailsTransparency(fund, request)
          => "Fund structure is not tax transparent" \in ReasonsOf(score)

\* A call returned: the funds the result names, and for every fund whether
\* the request failed one of its rules
NoAllocationPastRules(restricted_only) ==
    (alloc_calls' # alloc_calls /\ alloc_outcome'.kind = "returned")
        => \A k \in 1..Len(FundOrder) :
              LET fund == funds[FundOrder[k]]
                  request == alloc_request'
                  score == fund_scores'[k]
                  fails == \/ FailsCategory(fund, request, restricted_only)
                           \/ FailsJurisdiction(fund, request)
                           \/ FailsMinimum(fund, request)
                           \/ FailsMaximum(fund, request)
                           \/ FailsCapacity(fund)
                           \/ FailsTransparency(fund, request)
              IN  /\ fails => ReportedFor(alloc_outcome'.result, fund.fund_id) = 0
                  /\ ReasonsCoverFailures(fund, request, score,
                                          FailsCategory(fund, request, restricted_only))

\* C13, as stated: a vehicle never receives an allocation from a request that
\* fails one of its eligibility rules (category not in the eligible set,
\* restricted jurisdiction, amount outside [min_commitment, max_commitment],
\* no positive capacity, tax transparency required of another structure), and
\* each failing rule adds its own rejection reason.
C13_NoAllocationPastEligibility ==
    [][NoAllocationPastRules(FALSE)]_vars

\* C13, amended: the same, with the category rule failing only for a vehicle
\* whose eligible set is not empty; a vehicle with an empty eligible set
\* admits every category.
C13_NoAllocationPastEligibilityOfRestricted ==
    [][NoAllocationPastRules(TRUE)]_vars

\* A request was turned down by one fund for its category and by another for
\* its size, and a third fund, which lists no category, took the allocation
C13_Witness ==
    /\ ReturnedResult
    /\ Len(LastResult.allocations) = 1
    /\ funds[LastResult.allocations[1].fund_id].eligible_investor_types = {}
    /\ \E k \in 1..Len(fund_scores) :
          "Investor type not eligible for fund" \in ReasonsOf(fund_scores[k])
    /\ \E k \in 1..Len(fund_scores) :
          /\ "Requested amount below minimum commitment" \in ReasonsOf(fund_scores[k])
          /\ "Fund structure is not tax transparent" \in ReasonsOf(fund_scores[k])

\* C14: every vehicle that started with committed_capital at most target_size
\* still has committed_capital at most target_size.
C14_CommittedWithinTarget ==
    \A id \in FundIds :
        committed_before[id] <= funds[id].target_size
            => funds[id].committed_capital <= funds[id].target_size

\* The result allocates to the fund
AllocatedIn(result, fund_id) ==
    \E k \in 1..Len(result.allocations) : result.allocations[k].fund_id = fund_id

\* The ERISA percentage of the request before this one, if it was accepted
\* into the fund: part of the participation accumulated so far
ErisaAcceptedBefore(fund_id) ==
    IF /\ alloc_outcome.kind = "returned"
       /\ AllocatedIn(alloc_outcome.result, fund_id)
       /\ ~Falsy(alloc_request.erisa_percentage)
    THEN alloc_request.erisa_percentage[1] ELSE 0

\* C26: a request with an ERISA percentage gets nothing of the MAIN vehicle
\* when the percentages accepted into it before, plus its own, exceed 25: of
\* two requests of 15% the second is turned down.
C26_ErisaParticipationCapped ==
    [][(/\ alloc_calls' = alloc_calls + 1
        /\ alloc_outcome'.kind = "returned"
        /\ ~Falsy(alloc_request'.erisa_percentage)
        /\ ErisaAcceptedBefore("MAIN") + alloc_request'.erisa_percentage[1] > 25)
       => ~AllocatedIn(alloc_outcome'.result, "MAIN")
    ]_vars

\* C26: two requests of 15% in a row, each with an allocation in MAIN
C26_BothAccepted ==
    /\ Len(accepted) = 2
    /\ alloc_calls = 2
    /\ alloc_request.erisa_percentage = Some(15)
    /\ AllocatedIn(accepted[1], "MAIN")
    /\ AllocatedIn(accepted[2], "MAIN")

\* remaining_amount when the loop reaches the k-th allocation of a result
RECURSIVE RemainingBefore(_, _)
RemainingBefore(result, k) ==
    IF k = 1 THEN result.total_requested
    ELSE FloatSub(RemainingBefore(result, k - 1), result.allocations[k - 1].allocated_amount)

\* min(remaining request, available capacity, max_commitment) for the k-th
\* allocation of a result, from the registry the call started with
Offered(result, k, registry) ==
    LET fund == registry[result.allocations[k].fund_id]
        by_capacity == Min(RemainingBefore(result, k),
                           FloatSub(fund.target_size, fund.committed_capital))
    IN  IF ~Falsy(fund.max_commitment)
        THEN Min(by_capacity, fund.max_commitment[1]) ELSE by_capacity

\* The demand outstanding for a vehicle when a request reaches it: the engine
\* holds no other pending request, so it is what is left of this one
OutstandingDemand(result, k) == RemainingBefore(result, k)

\* C27: each vehicle is offered min(remaining request, available capacity,
\* max_commitment); a pro-rata vehicle whose outstanding demand exceeds its
\* capacity gives that amount times capacity / demand; any other vehicle, and
\* a pro-rata vehicle whose demand fits, gives the amount unreduced.
C27_ProRataScalesOversubscribed ==
    [][(alloc_calls' = alloc_calls + 1 /\ alloc_outcome'.kind = "returned") =>
        LET result == alloc_outcome'.result
        IN  \A k \in 1..Len(result.allocations) :
                LET fund == funds[result.allocations[k].fund_id]
                    available_capacity == FloatSub(fund.target_size, fund.committed_capital)
                    total_demand == OutstandingDemand(result, k)
                IN  result.allocations[k].allocated_amount =
                        IF /\ fund.allocation_strategy = "pro_rata"
                           /\ total_demand > available_capacity
                        THEN RoundHalfEven(Offered(result, k, funds) * available_capacity,
                                           total_demand)
                        ELSE Offered(result, k, funds)
    ]_vars

\* C27: what the engine does: the offered amount, never reduced
C27_OfferedNeverReduced ==
    [][(alloc_calls' = alloc_calls + 1 /\ alloc_outcome'.kind = "returned") =>
        LET result == alloc_outcome'.result
        IN  \A k \in 1..Len(result.allocations) :
                result.allocations[k].allocated_amount = Offered(result, k, funds)
    ]_vars

\* C28: every amount a result places in a vehicle is at least the vehicle's
\* min_commitment and at most its max_commitment, in the second and later
\* vehicles of a split too, and in a vehicle with less capacity left than the
\* request.
C28_AmountsWithinCommitmentLimits ==
    \A r \in 1..Len(accepted) :
        \A k \in 1..Len(accepted[r].allocations) :
            LET fund == funds[accepted[r].allocations[k].fund_id]
                allocated_amount == accepted[r].allocations[k].allocated_amount
            IN  /\ allocated_amount >= fund.min_commitment
                /\ ~Falsy(fund.max_commitment) => allocated_amount <= fund.max_commitment[1]

\* C28: what holds: no amount above the vehicle's max_commitment
C28_AmountsWithinMaximum ==
    \A r \in 1..Len(accepted) :
        \A k \in 1..Len(accepted[r].allocations) :
            LET fund == funds[accepted[r].allocations[k].fund_id]
            IN  ~Falsy(fund.max_commitment) =>
                    accepted[r].allocations[k].allocated_amount <= fund.max_commitment[1]

\* C28: a result whose first vehicle had less capacity left than the request
\* and took less than its min_commitment
C28_BelowMinimumByCapacity ==
    /\ alloc_outcome.kind = "returned"
    /\ Len(alloc_outcome.result.allocations) >= 1
    /\ LET first == alloc_outcome.result.allocations[1]
       IN  /\ first.allocated_amount < alloc_outcome.result.total_requested
           /\ first.allocated_amount < funds[first.fund_id].min_commitment

----------------------------------------------------------------------------
(* Event calculation engine: data.  Amounts, rates and percentages are      *)
(* Decimals, counted in 1/Scale units as in the waterfall engine.           *)

\* FundEvent and its subclasses, one record shape for all of them
FundEvent(type, total, method, basis, record_date) ==
    [event_type |-> type, total_amount |-> total, calculation_method |-> method,
     calculation_basis |-> basis, record_date |-> record_date,
     investment_amount |-> 0, management_fee_amount |-> 0, expense_amount |-> 0,
     minimum_call_amount |-> None, allow_partial_funding |-> TRUE,
     gross_distribution |-> 0, management_fee_offset |-> 0, expense_offset |-> 0,
     withholding_required |-> FALSE, default_withholding_rate |-> 0,
     fee_rate |-> 0, prorate_for_period |-> TRUE, days_in_period |-> 0]

\* total_amount is the sum of the components (validate_total_amount)
CapitalCallEvent(investment, fee, expense, method, basis, minimum, partial) ==
    [FundEvent("capital_call", investment + fee + expense, method, basis, 3)
        EXCEPT !.investment_amount = investment, !.management_fee_amount = fee,
               !.expense_amount = expense, !.minimum_call_amount = minimum,
               !.allow_partial_funding = partial]

DistributionEvent(gross, fee_offset, expense_offset, required, default_rate) ==
    [FundEvent("distribution", gross, "pro_rata", "commitment", 3)
        EXCEPT !.gross_distribution = gross, !.management_fee_offset = fee_offset,
               !.expense_offset = expense_offset, !.withholding_required = required,
               !.default_withholding_rate = default_rate]

ManagementFeeEvent(total, rate, prorate, days) ==
    [FundEvent("management_fee", total, "pro_rata", "commitment", 3)
        EXCEPT !.fee_rate = rate, !.prorate_for_period = prorate,
               !.days_in_period = days]

\* The events handed to calculate_event
Events ==
    { CapitalCallEvent(Units(9), Units(2), Units(1), "pro_rata", "commitment", None, TRUE),
      CapitalCallEvent(Units(9), Units(2), Units(1), "pro_rata", "commitment",
                       Some(Units(4)), FALSE),
      CapitalCallEvent(Units(9), Units(2), Units(1), "pro_rata", "commitment",
                       Some(Units(4)), TRUE),
      CapitalCallEvent(Units(9), Units(2), Units(1), "flat_amount", "commitment",
                       None, TRUE),
      CapitalCallEvent(Units(9), Units(2), Units(1), "pro_rata", "paid_in", None, TRUE),
      DistributionEvent(Units(10), Units(1), Units(1), TRUE, 300),
      DistributionEvent(Units(10), 0, 0, FALSE, 300),
      DistributionEvent(Units(10), Units(6), Units(6), TRUE, 300),
      ManagementFeeEvent(Units(1), 20, TRUE, 90),
      FundEvent("expense_allocation", Units(12), "pro_rata", "commitment", 3) }

NoEvent == FundEvent("", 0, "", "", 0)

\* A rate as the commitment dict holds it: a Decimal or a Python float
DecimalRate(v) == Some([t |-> "Decimal", v |-> v])
FloatRate(v) == Some([t |-> "float", v |-> v])

\* One dict of investor_commitments.  paid_in_amount, commitment_date and
\* withholding_rate are None when the dict has no such key.
Commitment(investor, id, amount, paid_in, commitment_date, status, rate) ==
    [investor_id |-> investor, commitment_id |-> id, commitment_amount |-> amount,
     paid_in_amount |-> paid_in, commitment_date |-> commitment_date,
     status |-> status, withholding_rate |-> rate]

\* The rosters handed to calculate_event
CommitmentRosters ==
    { << >>,
      <<Commitment("a", "c1", Units(1), Some(Units(1)), Some(1), "active", None),
        Commitment("b", "c2", Units(3), Some(Units(1)), Some(1), "active", None)>>,
      <<Commitment("a", "c1", Units(1), None, Some(1), "active", None),
        Commitment("b", "c2", Units(1), None, Some(1), "active", DecimalRate(150)),
        Commitment("c", "c3", Units(1), None, None, "active", None)>>,
      <<Commitment("a", "c1", Units(1), None, Some(1), "active", None),
        Commitment("a", "c2", Units(3), None, Some(1), "active", None),
        Commitment("b", "c3", Units(6), Some(Units(2)), Some(1), "active", None)>>,
      <<Commitment("a", "c1", Units(1), None, Some(1), "active", None),
        Commitment("a", "c2", Units(2), None, Some(1), "redeemed", None),
        Commitment("b", "c3", Units(3), None, Some(5), "active", None),
        Commitment("c", "c4", Units(3), None, Some(3), "active", None)>>,
      <<Commitment("a", "c1", Units(2), None, Some(5), "active", None),
        Commitment("b", "c2", 0, None, Some(1), "active", None)>>,
      <<Commitment("a", "c1", Units(1), None, Some(1), "active", None),
        Commitment("b", "c2", Units(3), None, Some(1), "active", FloatRate(300))>>,
      <<Commitment("a", "c1", Units(1), None, Some(1), "pending", None)>> }

\* InvestorEventCalculation; the portions are None outside capital calls
InvestorEventCalculation(commitment, ownership, basis, gross, fee_offset, expense_offset, withholding, net, investment, fee, expense) ==
    [investor_id |-> commitment.investor_id, commitment_id |-> commitment.commitment_id,
     ownership_percentage |-> ownership, calculation_basis_amount |-> basis,
     gross_amount |-> gross, management_fee_offset |-> fee_offset,
     expense_offset |-> expense_offset, withholding_amount |-> withholding,
     net_amount |-> net, investment_portion |-> investment,
     management_fee_portion |-> fee, expense_portion |-> expense]

EventProcessingResult(calcs, gross, net, withholding, errors, warnings, status) ==
    [total_investors_processed |-> Len(calcs), total_gross_amount |-> gross,
     total_net_amount |-> net, total_withholding |-> withholding,
     investor_calculations |-> calcs, validation_errors |-> errors,
     validation_warnings |-> warnings, processing_status |-> status]

----------------------------------------------------------------------------
(* Event calculation engine: calculate_event and what it calls *)

\* _is_investor_eligible
_is_investor_eligible(commitment, record_date) ==
    /\ ~(commitment.commitment_date # None /\ commitment.commitment_date[1] > record_date)
    /\ commitment.status = "active"

\* The basis one commitment contributes: Decimal(str(...)) of the field the
\* event's calculation_basis names; a missing paid_in_amount or nav_amount is 0
BasisOf(event, commitment) ==
    CASE event.calculation_basis = "commitment" -> commitment.commitment_amount
      [] event.calculation_basis = "paid_in" ->
            IF commitment.paid_in_amount = None THEN 0 ELSE commitment.paid_in_amount[1]
      [] event.calculation_basis = "nav" -> 0
      [] OTHER -> commitment.commitment_amount

\* basis_amounts[investor_id] = ..., one assignment per eligible commitment
RECURSIVE _get_calculation_basis_amounts(_, _, _)
_get_calculation_basis_amounts(event, investor_commitments, basis_amounts) ==
    IF investor_commitments = << >> THEN basis_amounts
    ELSE LET commitment == Head(investor_commitments)
         IN  _get_calculation_basis_amounts(event, Tail(investor_commitments),
                 IF _is_investor_eligible(commitment, event.record_date)
                 THEN DictSet(basis_amounts, commitment.investor_id,
                              BasisOf(event, commitment))
                 ELSE basis_amounts)

\* (basis_amount / total_basis) * 100: the quotient carries the digits the
\* percentage needs, so the percentage is rounded once, at 1/Scale
OwnershipPercentage(basis_amount, total_basis) ==
    RoundHalfEven(basis_amount * 100 * Scale, total_basis)

\* (amount * ownership_percentage) / 100
PercentOf(amount, ownership_percentage) ==
    DecDiv(DecMul(amount, ownership_percentage), Units(100))

\* The minimum is never applied
NeverBelowMinimum(event, gross_amount) == FALSE

\* event.minimum_call_amount and gross_amount < event.minimum_call_amount,
\* and not event.allow_partial_funding
BelowMinimumCall(event, gross_amount) ==
    /\ ~Falsy(event.minimum_call_amount)
    /\ gross_amount < event.minimum_call_amount[1]
    /\ ~event.allow_partial_funding

_calculate_capital_call(event, commitment, basis_amount, ownership_percentage) ==
    LET gross_amount ==
            IF event.calculation_method = "pro_rata"
            THEN PercentOf(event.total_amount, ownership_percentage)
            ELSE DecDiv(event.total_amount, Units(Len(<<commitment>>)))
        investment_portion == PercentOf(event.investment_amount, ownership_percentage)
        mgmt_fee_portion == PercentOf(event.management_fee_amount, ownership_percentage)
        expense_portion == PercentOf(event.expense_amount, ownership_percentage)
    IN  IF BelowMinimumCall(event, gross_amount)
        THEN InvestorEventCalculation(commitment, ownership_percentage, basis_amount,
                 0, 0, 0, 0, 0, Some(0), Some(0), Some(0))
        ELSE InvestorEventCalculation(commitment, ownership_percentage, basis_amount,
                 gross_amount, 0, 0, 0, gross_amount, Some(investment_portion),
                 Some(mgmt_fee_portion), Some(expense_portion))

\* commitment.get('withholding_rate', event.default_withholding_rate)
WithholdingRate(event, commitment) ==
    IF commitment.withholding_rate = None
    THEN [t |-> "Decimal", v |-> event.default_withholding_rate]
    ELSE commitment.withholding_rate[1]

\* gross_amount * withholding_rate with a float rate: Decimal * float is a
\* TypeError
WithholdingRaises(event, commitment) ==
    /\ event.event_type = "distribution"
    /\ event.withholding_required
    /\ WithholdingRate(event, commitment).t = "float"

_calculate_distribution(event, commitment, basis_amount, ownership_percentage) ==
    LET gross_amount == PercentOf(event.gross_distribution, ownership_percentage)
        mgmt_fee_offset == PercentOf(event.management_fee_offset, ownership_percentage)
        expense_offset == PercentOf(event.expense_offset, ownership_percentage)
        withholding_amount ==
            IF event.withholding_required
            THEN DecMul(gross_amount, WithholdingRate(event, commitment).v)
            ELSE 0
        net_amount ==
            Max(gross_amount - mgmt_fee_offset - expense_offset - withholding_amount, 0)
    IN  InvestorEventCalculation(commitment, ownership_percentage, basis_amount,
            gross_amount, mgmt_fee_offset, expense_offset, withholding_amount,
            net_amount, None, None, None)

_calculate_management_fee(event, commitment, basis_amount, ownership_percentage) ==
    LET annual_fee == DecMul(basis_amount, event.fee_rate)
        period_factor == DecDiv(Units(event.days_in_period), Units(365))
        gross_amount ==
            IF event.prorate_for_period THEN DecMul(annual_fee, period_factor)
            ELSE annual_fee
    IN  InvestorEventCalculation(commitment, ownership_percentage, basis_amount,
            gross_amount, 0, 0, 0, gross_amount, None, None, None)

_calculate_generic_event(event, commitment, basis_amount, ownership_percentage) ==
    LET gross_amount == PercentOf(event.total_amount, ownership_percentage)
    IN  InvestorEventCalculation(commitment, ownership_percentage, basis_amount,
            gross_amount, 0, 0, 0, gross_amount, None, None, None)

\* The branch on event.event_type
CalculationFor(event, commitment, basis_amount, ownership_percentage) ==
    CASE event.event_type = "capital_call" ->
            _calculate_capital_call(event, commitment, basis_amount, ownership_percentage)
      [] event.event_type = "distribution" ->
            _calculate_distribution(event, commitment, basis_amount, ownership_percentage)
      [] event.event_type = "management_fee" ->
            _calculate_management_fee(event, commitment, basis_amount, ownership_percentage)
      [] OTHER ->
            _calculate_generic_event(event, commitment, basis_amount, ownership_percentage)

\* _validate_calculation: errors and warnings, each naming the investor
CalculationErrors(calc) ==
    IF calc.net_amount < 0 THEN <<[rule |-> "Negative net amount",
                                   investor_id |-> calc.investor_id]>>
    ELSE << >>

CalculationWarnings(calc) ==
    (IF calc.ownership_percentage = 0 /\ calc.gross_amount > 0
     THEN <<[rule |-> "Zero ownership but non-zero amount",
             investor_id |-> calc.investor_id]>>
     ELSE << >>)
    \o (IF 0 < calc.gross_amount /\ calc.gross_amount * 100 < Scale
        THEN <<[rule |-> "Very small amount", investor_id |-> calc.investor_id]>>
        ELSE << >>)

\* The for loop of calculate_event from one commitment on.  A calculation is
\* stored in self.calculations as soon as it is made, so a run that raises
\* leaves the calculations it had made.
RECURSIVE CalculateFrom(_, _, _, _, _)
CalculateFrom(event, investor_commitments, basis_amounts, total_basis, run) ==
    IF investor_commitments = << >> THEN run
    ELSE LET commitment == Head(investor_commitments)
             investor_id == commitment.investor_id
         IN  IF investor_id \notin DOMAIN basis_amounts
             THEN CalculateFrom(event, Tail(investor_commitments), basis_amounts,
                                total_basis, run)
             ELSE IF WithholdingRaises(event, commitment)
             THEN [run EXCEPT !.raised = TRUE]
             ELSE LET basis_amount == basis_amounts[investor_id]
                      ownership_percentage == OwnershipPercentage(basis_amount, total_basis)
                      calc == CalculationFor(event, commitment, basis_amount,
                                             ownership_percentage)
                  IN  CalculateFrom(event, Tail(investor_commitments), basis_amounts,
                          total_basis,
                          [raised |-> FALSE,
                           calculations |-> Append(run.calculations, calc),
                           validation_errors |->
                              run.validation_errors \o CalculationErrors(calc),
                           validation_warnings |->
                              run.validation_warnings \o CalculationWarnings(calc)])

\* A run that starts with the calculations already in the ledger
RunOnLedger == [raised |-> FALSE, calculations |-> calculations,
                validation_errors |-> << >>, validation_warnings |-> << >>]

\* calculations, validation_errors and validation_warnings as a call starts
NewRun == [raised |-> FALSE, calculations |-> << >>,
           validation_errors |-> << >>, validation_warnings |-> << >>]

\* The empty result flagged as a success
UnflaggedResult(validation_errors) ==
    EventProcessingResult(<< >>, 0, 0, 0, << >>, << >>, "completed")

\* The result returned when total_basis == 0
FailedResult(validation_errors) ==
    EventProcessingResult(<< >>, 0, 0, 0, validation_errors, << >>, "failed")

\* The summary made of the calculations of a run
CompletedResult(run) ==
    LET calcs == run.calculations
    IN  EventProcessingResult(calcs,
            SumSeq([k \in 1..Len(calcs) |-> calcs[k].gross_amount]),
            SumSeq([k \in 1..Len(calcs) |-> calcs[k].net_amount]),
            SumSeq([k \in 1..Len(calcs) |-> calcs[k].withholding_amount]),
            run.validation_errors, run.validation_warnings,
            IF run.validation_errors = << >> THEN "completed" ELSE "partial")

\* One run of calculate_event: what it returns or raises, and the
\* calculations it stores in self.calculations
EngineRun(event, investor_commitments) ==
    LET basis_amounts ==
            _get_calculation_basis_amounts(event, investor_commitments, EmptyDict)
        total_basis == SumDict(basis_amounts)
        run == CalculateFrom(event, investor_commitments, basis_amounts, total_basis,
                             NewRun)
    IN  IF total_basis = 0
        THEN [outcome |-> Returned(FailedResult(
                             <<[rule |-> "No eligible investors found for calculation",
                                investor_id |-> ""]>>)),
              stored |-> << >>]
        ELSE [outcome |-> IF run.raised THEN Raised("TypeError")
                          ELSE Returned(CompletedResult(run)),
              stored |-> run.calculations]

calculate_event(event, investor_commitments) ==
    /\ ev_calls < MaxEvents
    /\ ev_calls' = ev_calls + 1
    /\ ev_event' = event
    /\ ev_commitments' = investor_commitments
    /\ ev_outcome' = EngineRun(event, investor_commitments).outcome
    /\ calculations' = calculations \o EngineRun(event, investor_commitments).stored
    /\ ev_returned' = Append(ev_returned,
                             [event |-> event, investor_commitments |-> investor_commitments,
                              outcome |-> ev_outcome'])
    /\ UNCHANGED <<wf_vars, alloc_vars, pe_vars, th_vars>>

CalculateEvent ==
    \E event \in Events, investor_commitments \in CommitmentRosters :
        calculate_event(event, investor_commitments)

\* EventCalculationEngine.__init__
EventInit ==
    /\ calculations = << >>
    /\ ev_calls = 0
    /\ ev_event = NoEvent
    /\ ev_commitments = << >>
    /\ ev_outcome = NoOutcome
    /\ ev_returned = << >>

EventNext == CalculateEvent

----------------------------------------------------------------------------
(* Event calculation engine: properties *)

\* The last call returned a result that is not the failed one
EventCalculated ==
    ev_outcome.kind = "returned" /\ ev_outcome.result.processing_status # "failed"

EventRecords == ev_outcome.result.investor_calculations

\* The commitments of a roster that are eligible for an event
EligibleCommitments(event, roster) ==
    {k \in 1..Len(roster) :
        /\ roster[k].status = "active"
        /\ (roster[k].commitment_date = None
               \/ roster[k].commitment_date[1] <= event.record_date)}

\* The basis the eligible commitments of a roster add up to
EligibleBasis(event, roster) ==
    SumSeq([k \in 1..Len(roster) |->
        IF k \in EligibleCommitments(event, roster)
        THEN BasisOf(event, roster[k]) ELSE 0])

\* C15: in a run that does not fail, the ownership percentages of the
\* per-investor records sum to 100 within 0.01, for any roster, also one that
\* names an investor on more than one commitment.
C15_OwnershipSumsTo100 ==
    EventCalculated
        => Abs(SumSeq([k \in 1..Len(EventRecords) |->
                          EventRecords[k].ownership_percentage]) - Units(100)) * 100
              <= Scale

\* C16: when the basis of the eligible commitments adds up to zero, the call
\* returns a result with processing_status 'failed', a validation error, no
\* per-investor record and zero totals, and the ledger of calculations stays
\* as it was.
C16_ZeroBasisFails ==
    [][(ev_calls' # ev_calls /\ EligibleBasis(ev_event', ev_commitments') = 0)
          => /\ ev_outcome'.kind = "returned"
             /\ ev_outcome'.result.processing_status = "failed"
             /\ ev_outcome'.result.validation_errors # << >>
             /\ ev_outcome'.result.investor_calculations = << >>
             /\ ev_outcome'.result.total_investors_processed = 0
             /\ ev_outcome'.result.total_gross_amount = 0
             /\ ev_outcome'.result.total_net_amount = 0
             /\ ev_outcome'.result.total_withholding = 0
             /\ calculations' = calculations]_vars

\* A run failed on a roster whose only eligible commitment has a zero basis,
\* with calculations of an earlier run in the ledger
C16_Witness ==
    /\ ev_outcome.kind = "returned"
    /\ ev_outcome.result.processing_status = "failed"
    /\ EligibleCommitments(ev_event, ev_commitments) # {}
    /\ calculations # << >>

\* C17: a commitment dated after the record date, or not active, is left out:
\* every record is for an eligible commitment, and the bases of the records'
\* investors are bases of eligible commitments only.
C17_IneligibleCommitmentsExcluded ==
    EventCalculated
        => \A r \in 1..Len(EventRecords) :
              \E k \in EligibleCommitments(ev_event, ev_commitments) :
                  /\ ev_commitments[k].commitment_id = EventRecords[r].commitment_id
                  /\ ev_commitments[k].investor_id = EventRecords[r].investor_id

\* A capital call whose minimum rule zeroes nobody
PlainCapitalCall ==
    /\ EventCalculated
    /\ ev_event.event_type = "capital_call"
    /\ (ev_event.minimum_call_amount = None \/ ev_event.allow_partial_funding)

\* C18: in a capital call each investor's gross amount is total_amount x
\* ownership% / 100 under the pro-rata method and an equal split of
\* total_amount across the participating investors otherwise, so that the
\* gross amounts sum to total_amount.
C18_CapitalCallGrossSumsToTotal ==
    PlainCapitalCall
        => /\ \A r \in 1..Len(EventRecords) :
                 EventRecords[r].gross_amount =
                    IF ev_event.calculation_method = "pro_rata"
                    THEN PercentOf(ev_event.total_amount,
                                   EventRecords[r].ownership_percentage)
                    ELSE DecDiv(ev_event.total_amount, Units(Len(EventRecords)))
           /\ SumSeq([r \in 1..Len(EventRecords) |-> EventRecords[r].gross_amount])
                 = ev_event.total_amount

\* The gross amount of a capital-call record before the minimum is applied:
\* the pro-rata share, or total_amount under another method
RawGross(record) ==
    IF ev_event.calculation_method = "pro_rata"
    THEN PercentOf(ev_event.total_amount, record.ownership_percentage)
    ELSE ev_event.total_amount

\* C19: in a capital call with a minimum_call_amount and partial funding
\* disallowed, an investor whose gross amount is below the minimum still gets
\* a record, with gross, net, investment, management-fee and expense amounts
\* all zero; every other record, and every record when partial funding is
\* allowed or no minimum is set, keeps its amounts.
C19_BelowMinimumIsZeroedNotSkipped ==
    (EventCalculated /\ ev_event.event_type = "capital_call")
        => /\ \A k \in EligibleCommitments(ev_event, ev_commitments) :
                 \E r \in 1..Len(EventRecords) :
                     EventRecords[r].commitment_id = ev_commitments[k].commitment_id
           /\ \A r \in 1..Len(EventRecords) :
                 LET record == EventRecords[r]
                     own == record.ownership_percentage
                 IN  IF /\ ev_event.minimum_call_amount # None
                        /\ ~ev_event.allow_partial_funding
                        /\ RawGross(record) < ev_event.minimum_call_amount[1]
                     THEN /\ record.gross_amount = 0
                          /\ record.net_amount = 0
                          /\ record.investment_portion = Some(0)
                          /\ record.management_fee_portion = Some(0)
                          /\ record.expense_portion = Some(0)
                     ELSE /\ record.gross_amount = RawGross(record)
                          /\ record.net_amount = RawGross(record)
                          /\ record.investment_portion
                                = Some(PercentOf(ev_event.investment_amount, own))
                          /\ record.management_fee_portion
                                = Some(PercentOf(ev_event.management_fee_amount, own))
                          /\ record.expense_portion
                                = Some(PercentOf(ev_event.expense_amount, own))

\* A capital call with the minimum in force gave one investor a zeroed record
\* and another investor a share at or above the minimum
C19_Witness ==
    /\ EventCalculated
    /\ ev_event.event_type = "capital_call"
    /\ ev_event.minimum_call_amount # None
    /\ ~ev_event.allow_partial_funding
    /\ \E r \in 1..Len(EventRecords) :
          /\ EventRecords[r].gross_amount = 0
          /\ EventRecords[r].ownership_percentage > 0
    /\ \E r \in 1..Len(EventRecords) :
          EventRecords[r].gross_amount >= ev_event.minimum_call_amount[1]

\* C20: a distribution gives each investor a net amount of
\* max(0, gross - fee offset - expense offset - withholding), where
\* withholding is gross x (the commitment's own rate if it has one, else the
\* event's default) when withholding is required and zero otherwise; the net
\* amount is never negative and never above the gross amount.
C20_DistributionNet ==
    (ev_event.event_type = "distribution"
        /\ EligibleBasis(ev_event, ev_commitments) # 0)
        => /\ ev_outcome.kind = "returned"
           /\ \A r \in 1..Len(EventRecords) :
                 LET record == EventRecords[r]
                     commitment ==
                        ev_commitments[CHOOSE k \in 1..Len(ev_commitments) :
                            ev_commitments[k].commitment_id = record.commitment_id]
                     rate == IF commitment.withholding_rate # None
                             THEN commitment.withholding_rate[1].v
                             ELSE ev_event.default_withholding_rate
                     withholding == IF ev_event.withholding_required
                                    THEN DecMul(record.gross_amount, rate) ELSE 0
                 IN  /\ record.withholding_amount = withholding
                     /\ record.net_amount =
                           Max(0, record.gross_amount - record.management_fee_offset
                                    - record.expense_offset - withholding)
                     /\ record.net_amount >= 0
                     /\ record.net_amount <= record.gross_amount

----------------------------------------------------------------------------
(* Event processing service: process_event *)

\* _get_investor_commitments: the three commitments the service works on, in
\* units of 5,000,000; the withholding rates are Python floats
_get_investor_commitments ==
    <<Commitment("inv_001", "comm_001", Units(2), Some(1200), Some(1), "active",
                 FloatRate(300)),
      Commitment("inv_002", "comm_002", Units(5), Some(3000), Some(1), "active",
                 FloatRate(0)),
      Commitment("inv_003", "comm_003", Units(1), Some(600), Some(2), "active",
                 FloatRate(150))>>

\* The events handed to process_event; the last one has a record date before
\* every commitment
ProcessedEvents ==
    { CapitalCallEvent(Units(9), Units(2), Units(1), "pro_rata", "commitment", None, TRUE),
      CapitalCallEvent(Units(9), Units(2), Units(1), "pro_rata", "paid_in",
                       Some(Units(4)), FALSE),
      DistributionEvent(Units(10), Units(1), Units(1), TRUE, 300),
      DistributionEvent(Units(10), 0, 0, FALSE, 300),
      ManagementFeeEvent(Units(1), 20, TRUE, 90),
      FundEvent("expense_allocation", Units(12), "pro_rata", "commitment", 0) }

\* What process_event leaves alone
pe_others == <<wf_vars, alloc_vars, ev_calls, ev_event, ev_commitments, ev_outcome,
               ev_returned, th_vars>>

\* _log_event_action
_log_event_action(history, action) == Append(history, action)

\* process_event up to the first await: the status is set to PROCESSING
\* whatever it was
process_event(auto_approve, send_notifications) ==
    /\ pe_pc = "idle"
    /\ pe_calls < MaxProcessCalls
    /\ pe_calls' = pe_calls + 1
    /\ pe_flags' = [auto_approve |-> auto_approve,
                    send_notifications |-> send_notifications]
    /\ event_status' = "processing"
    /\ event_history' = _log_event_action(event_history, "processing_started")
    /\ pe_pc' = "calculate"
    /\ pe_outcome' = NoOutcome
    /\ UNCHANGED <<approved_by, pe_event, pe_result, calculations>>
    /\ UNCHANGED pe_others

ProcessEvent ==
    \E auto_approve \in BOOLEAN, send_notifications \in BOOLEAN :
        process_event(auto_approve, send_notifications)

\* The commitments are fetched and calculate_event runs on the service's
\* engine; a result with validation errors marks the event FAILED and raises
Calculate ==
    /\ pe_pc = "calculate"
    /\ LET investor_commitments == _get_investor_commitments
           run == EngineRun(pe_event, investor_commitments)
       IN  IF investor_commitments = << >>
           THEN /\ pe_pc' = "except"
                /\ UNCHANGED <<event_status, event_history, pe_result, calculations>>
           ELSE /\ calculations' = calculations \o run.stored
                /\ IF run.outcome.kind = "raised"
                   THEN /\ pe_pc' = "except"
                        /\ UNCHANGED <<event_status, event_history, pe_result>>
                   ELSE IF run.outcome.result.validation_errors # << >>
                   THEN /\ event_status' = "failed"
                        /\ event_history' =
                              _log_event_action(event_history, "processing_failed")
                        /\ pe_result' = run.outcome.result
                        /\ pe_pc' = "except"
                   ELSE /\ pe_result' = run.outcome.result
                        /\ pe_pc' = "approve"
                        /\ UNCHANGED <<event_status, event_history>>
    /\ UNCHANGED <<approved_by, pe_event, pe_flags, pe_calls, pe_outcome>>
    /\ UNCHANGED pe_others

\* _approve_event
_approve_event ==
    /\ event_status' = "approved"
    /\ approved_by' = Some("created_by")
    /\ event_history' = _log_event_action(event_history, "approved")

\* auto_approve approves the event, otherwise it is left pending approval
Approve ==
    /\ pe_pc = "approve"
    /\ IF pe_flags.auto_approve
       THEN _approve_event
       ELSE /\ event_status' = "pending_approval"
            /\ UNCHANGED <<approved_by, event_history>>
    /\ pe_pc' = "complete"
    /\ UNCHANGED <<pe_event, pe_flags, pe_calls, pe_result, pe_outcome, calculations>>
    /\ UNCHANGED pe_others

\* After the notifications: an event that is not APPROVED becomes COMPLETED,
\* and the processing result is returned
Complete ==
    /\ pe_pc = "complete"
    /\ event_status' = IF event_status # "approved" THEN "completed" ELSE event_status
    /\ event_history' = _log_event_action(event_history, "processing_completed")
    /\ pe_outcome' = Returned(pe_result)
    /\ pe_pc' = "idle"
    /\ UNCHANGED <<approved_by, pe_event, pe_flags, pe_calls, pe_result, calculations>>
    /\ UNCHANGED pe_others

\* The except clause: the event is marked FAILED and the exception goes on
Except ==
    /\ pe_pc = "except"
    /\ event_status' = "failed"
    /\ event_history' = _log_event_action(event_history, "processing_failed")
    /\ pe_outcome' = Raised("Exception")
    /\ pe_pc' = "idle"
    /\ UNCHANGED <<approved_by, pe_event, pe_flags, pe_calls, pe_result, calculations>>
    /\ UNCHANGED pe_others

\* A service as constructed, with no event in hand
ProcessorIdle ==
    /\ event_status = "draft"
    /\ approved_by = None
    /\ event_history = << >>
    /\ pe_pc = "idle"
    /\ pe_event = NoEvent
    /\ pe_flags = [auto_approve |-> FALSE, send_notifications |-> TRUE]
    /\ pe_calls = 0
    /\ pe_result = FailedResult(<< >>)
    /\ pe_outcome = NoOutcome

\* EventProcessingService.__init__ and an event as FundEvent creates it: in
\* status DRAFT, approved by nobody
ProcessorInit ==
    /\ event_status = "draft"
    /\ approved_by = None
    /\ event_history = << >>
    /\ pe_pc = "idle"
    /\ pe_event \in ProcessedEvents
    /\ pe_flags = [auto_approve |-> FALSE, send_notifications |-> TRUE]
    /\ pe_calls = 0
    /\ pe_result = FailedResult(<< >>)
    /\ pe_outcome = NoOutcome

ProcessorNext == ProcessEvent \/ Calculate \/ Approve \/ Complete \/ Except

----------------------------------------------------------------------------
(* Event processing service: properties *)

TerminalStatuses == {"completed", "cancelled", "failed"}

\* C22: process_event never brings an event to completed unless it was
\* approved first, and never moves an event that is in a terminal status
\* (completed, cancelled, failed) to another status.
C22_StatusFollowsLifecycle ==
    [][event_status' # event_status
          => /\ event_status \notin TerminalStatuses
             /\ event_status' = "completed" => approved_by # None]_vars

----------------------------------------------------------------------------
(* Allocation engine: allocate_investor calls running at the same time *)

\* Two callers of one engine, each making one call.  A call is a sequence of
\* steps; between two steps of one call the other call may take steps.
Threads == {1, 2}

\* The requests made at the same time: each caller its own investor
ConcurrentRequests(t) ==
    { AllocationRequest(IF t = 1 THEN "INV-001" ELSE "INV-002", a,
                        "institutional", "USA", p, FALSE, None) :
        a \in {3, 14}, p \in { << >>, <<"PARALLEL", "MAIN">> } }

IdleThread ==
    [pc |-> "idle", request |-> NoRequest, fund_scores |-> << >>, sorted_funds |-> << >>,
     remaining_amount |-> 0, allocations |-> << >>, allocation_amount |-> 0,
     committed_capital |-> 0, outcome |-> NoOutcome]

\* The fund a call is allocating from
CurrentFund(t) == Head(threads[t].sorted_funds).fund_id

\* The call is between its read of the fund's capacity and its write of
\* committed_capital
Allocating(t, fund_id) ==
    /\ threads[t].pc \in {"load", "store"}
    /\ CurrentFund(t) = fund_id

\* allocate_investor up to the call of _allocate_to_funds: the investor is
\* looked up, the funds are scored and the eligible ones sorted
BeginAllocation(t, request) ==
    /\ threads[t].pc = "idle"
    /\ IF ~InvestorKnown(request)
       THEN /\ threads' = [threads EXCEPT ![t] =
                   [@ EXCEPT !.pc = "done", !.request = request,
                             !.outcome = Raised("AllocationError")]]
            /\ UNCHANGED accepted
       ELSE LET scores == _score_funds_for_investor(funds, request)
                eligible_funds == EligibleOnly(scores)
                rejection == _create_rejection_result(request, scores, funds)
            IN  IF eligible_funds = << >>
                THEN /\ threads' = [threads EXCEPT ![t] =
                            [@ EXCEPT !.pc = "done", !.request = request,
                                      !.fund_scores = scores,
                                      !.outcome = Returned(rejection)]]
                     /\ accepted' = Append(accepted, rejection)
                ELSE /\ threads' = [threads EXCEPT ![t] =
                            [@ EXCEPT !.pc = "read", !.request = request,
                                      !.fund_scores = scores,
                                      !.sorted_funds = _sort_funds_by_preference(
                                          eligible_funds, request.preference_order),
                                      !.remaining_amount = request.requested_amount]]
                     /\ UNCHANGED accepted
    /\ UNCHANGED <<funds, commit_log, raced>>

\* One pass of the loop of _allocate_to_funds up to the append: the capacity
\* of the fund is read and allocation_amount is worked out from it
ReadCapacity(t) ==
    /\ threads[t].pc = "read"
    /\ threads[t].sorted_funds # << >>
    /\ threads[t].remaining_amount > 0
    /\ LET fund == funds[CurrentFund(t)]
           allocation_amount == AllocationAmount(fund, threads[t].remaining_amount)
           request == threads[t].request
       IN  IF ProRataDividesByZero(fund)
           THEN /\ threads' = [threads EXCEPT ![t] =
                       [@ EXCEPT !.pc = "done",
                                 !.outcome = Raised("ZeroDivisionError")]]
                /\ UNCHANGED raced
           ELSE IF allocation_amount > 0
           THEN /\ threads' = [threads EXCEPT ![t] =
                       [@ EXCEPT !.pc = "load",
                                 !.allocation_amount = allocation_amount,
                                 !.remaining_amount = FloatSub(@, allocation_amount),
                                 !.allocations = Append(@,
                                     [fund_id |-> fund.fund_id,
                                      structure_type |-> fund.structure_type,
                                      allocated_amount |-> allocation_amount,
                                      percentage |->
                                         RoundHalfEven(allocation_amount * 100 * Scale,
                                                       request.requested_amount)])]]
                /\ raced' = IF \E u \in Threads \ {t} : Allocating(u, fund.fund_id)
                            THEN raced \cup {fund.fund_id} ELSE raced
           ELSE /\ threads' = [threads EXCEPT ![t] =
                       [@ EXCEPT !.sorted_funds = Tail(@)]]
                /\ UNCHANGED raced
    /\ UNCHANGED <<funds, commit_log, accepted>>

\* fund.committed_capital += allocation_amount, first half: the attribute is
\* read
LoadCommitted(t) ==
    /\ threads[t].pc = "load"
    /\ threads' = [threads EXCEPT ![t] =
          [@ EXCEPT !.pc = "store",
                    !.committed_capital = funds[CurrentFund(t)].committed_capital]]
    /\ UNCHANGED <<funds, commit_log, raced, accepted>>

\* fund.committed_capital += allocation_amount, second half: the sum is
\* written back, and the loop goes on to the next fund
StoreCommitted(t) ==
    /\ threads[t].pc = "store"
    /\ LET fund_id == CurrentFund(t)
           read == [funds[fund_id] EXCEPT
                       !.committed_capital = threads[t].committed_capital]
       IN  /\ funds' = [funds EXCEPT
                           ![fund_id] = Commit(read, threads[t].allocation_amount)]
           /\ commit_log' = [commit_log EXCEPT
                                ![fund_id] = Append(@, threads[t].allocation_amount)]
    /\ threads' = [threads EXCEPT ![t] =
          [@ EXCEPT !.pc = "read", !.sorted_funds = Tail(@)]]
    /\ UNCHANGED <<raced, accepted>>

\* The loop is over: the result is made of the allocations and returned
ReturnResult(t) ==
    /\ threads[t].pc = "read"
    /\ threads[t].sorted_funds = << >> \/ threads[t].remaining_amount <= 0
    /\ LET result == _create_allocation_result(threads[t].request,
                         threads[t].allocations, threads[t].fund_scores, funds)
       IN  /\ threads' = [threads EXCEPT ![t] =
                  [@ EXCEPT !.pc = "done", !.outcome = Returned(result)]]
           /\ accepted' = Append(accepted, result)
    /\ UNCHANGED <<funds, commit_log, raced>>

\* What a concurrent call leaves alone
th_others == <<wf_vars, ev_vars, pe_vars, investors, allocations, alloc_calls,
               alloc_request, fund_scores, alloc_outcome, committed_before>>

BeginCall ==
    /\ \E t \in Threads : \E request \in ConcurrentRequests(t) : BeginAllocation(t, request)
    /\ UNCHANGED th_others

ReadCapacityStep ==
    /\ \E t \in Threads : ReadCapacity(t)
    /\ UNCHANGED th_others

LoadCommittedStep ==
    /\ \E t \in Threads : LoadCommitted(t)
    /\ UNCHANGED th_others

StoreCommittedStep ==
    /\ \E t \in Threads : StoreCommitted(t)
    /\ UNCHANGED th_others

ReturnResultStep ==
    /\ \E t \in Threads : ReturnResult(t)
    /\ UNCHANGED th_others

\* No concurrent call under way
ThreadsIdle ==
    /\ threads = [t \in Threads |-> IdleThread]
    /\ commit_log = [id \in FundIds |-> << >>]
    /\ raced = {}

\* The engine with its vehicles added and both investors registered
ConcurrentInit ==
    /\ \E committed \in InitialCommitted :
          /\ funds = [id \in FundIds |->
                        [RegisteredFunds[id] EXCEPT !.committed_capital = committed[id]]]
          /\ committed_before = committed
    /\ investors = InvestorIds
    /\ allocations = << >>
    /\ alloc_calls = 0
    /\ alloc_request = NoRequest
    /\ fund_scores = << >>
    /\ alloc_outcome = NoOutcome
    /\ accepted = << >>
    /\ ThreadsIdle

ConcurrentNext ==
    \/ BeginCall
    \/ ReadCapacityStep
    \/ LoadCommittedStep
    \/ StoreCommittedStep
    \/ ReturnResultStep

----------------------------------------------------------------------------
(* Concurrent allocation: properties *)

\* committed_capital of a fund is above its target_size
Overcommitted(fund_id) ==
    funds[fund_id].committed_capital > funds[fund_id].target_size

\* committed_capital of a fund is not what it was at first plus the amounts
\* accepted for it, added in the order they were accepted
AmountMissing(fund_id) ==
    funds[fund_id].committed_capital
        # FloatSum(commit_log[fund_id], committed_before[fund_id])

\* C23: a vehicle ends with committed_capital above target_size, or with an
\* accepted amount missing from committed_capital, only if two calls were
\* allocating from that vehicle at the same time; calls on different
\* vehicles and calls that take their turns on a vehicle produce neither.
C23_UnsafeOnlyWhenInterleaved ==
    \A fund_id \in FundIds :
        (Overcommitted(fund_id) \/ AmountMissing(fund_id)) => fund_id \in raced

\* Two calls read the same capacity of a vehicle and both added their amount:
\* the vehicle is above its target by more than one of them could bring it
InterleavedOvercommitted ==
    \E fund_id \in raced :
        /\ Overcommitted(fund_id)
        /\ ~AmountMissing(fund_id)
        /\ Len(commit_log[fund_id]) = 2
        /\ \A t \in Threads : threads[t].pc = "done"

\* Two calls read the same committed_capital and each wrote its own sum: the
\* amount of the call that wrote first is missing
InterleavedAmountMissing ==
    \E fund_id \in raced :
        /\ AmountMissing(fund_id)
        /\ Len(commit_log[fund_id]) = 2
        /\ \A t \in Threads : threads[t].pc = "done"

----------------------------------------------------------------------------
(* Specifications: one per engine; the other engine stands still *)

\* The waterfall engine constructed, the other engines untouched
WaterfallStart == WaterfallInit /\ AllocationIdle /\ EventInit /\ ProcessorIdle /\ ThreadsIdle

WaterfallSpec == WaterfallStart /\ [][WaterfallNext]_vars

\* The allocation engine set up, the other engines constructed
AllocationStart == AllocationInit /\ WaterfallInit /\ EventInit /\ ProcessorIdle /\ ThreadsIdle

AllocationSpec == AllocationStart /\ [][AllocationNext]_vars

\* The event engine constructed, the other engines untouched
EventStart == EventInit /\ WaterfallInit /\ AllocationIdle /\ ProcessorIdle /\ ThreadsIdle

EventSpec == EventStart /\ [][EventNext]_vars

\* The event processing service, handed one event
ProcessorStart ==
    ProcessorInit /\ EventInit /\ WaterfallInit /\ AllocationIdle /\ ThreadsIdle

ProcessorSpec == ProcessorStart /\ [][ProcessorNext]_vars

\* The allocation engine called by two callers at once
ConcurrentStart == ConcurrentInit /\ WaterfallInit /\ EventInit /\ ProcessorIdle

ConcurrentSpec == ConcurrentStart /\ [][ConcurrentNext]_vars

====
